---------------------------- MODULE Spec2Model ----------------------------
(***************************************************************************)
(* Model of the Vulkan render system of LLGL (VKRenderSystem.cpp): buffer  *)
(* and texture creation, update, read-back and release on top of the       *)
(* device memory manager and the staging transfer protocol; and of the     *)
(* texture functions of the Direct3D 11 render system                      *)
(* (D3D11RenderSystem.cpp).                                                *)
(*                                                                         *)
(* VKRenderSystem.cpp is modelled from its code.  The classes it calls     *)
(* whose code is not part of the sources at hand (VKDeviceMemoryManager,   *)
(* VKDeviceMemory, VKDeviceBuffer, VKDevice, VKBuffer, VKTexture, the      *)
(* image conversion helpers) are modelled from the specification           *)
(* (spec.md, sections 3, 4 and 6).                                          *)
(***************************************************************************)
EXTENDS Integers, Sequences, FiniteSets, TLC

VARIABLES
    chunks,     \* the memory manager's chunk table, in creation order
    buffers,    \* VKRenderSystem::buffers_   : slot -> buffer object or NoBuffer
    textures,   \* VKRenderSystem::textures_  : slot -> texture object or NoTexture
    failures,   \* calls that have failed for lack of device memory so far
    lastCall,   \* the call that has just returned: arguments, outcome, event log
    lastWrite,  \* the last WriteBuffer (WriteTexture) call, if only ReadBuffer
                \* (ReadTexture) calls followed it
    d3dTextures, \* D3D11RenderSystem::textures_ : slot -> texture object or NoD3DTexture
    inFlight    \* the call that waits at its flush for the device, or NoFlight

vars == <<chunks, buffers, textures, failures, lastCall, lastWrite, d3dTextures,
         inFlight>>

---------------------------------------------------------------------------
(* Bounds of the model *)

MaxBufferSize == 2
MaxTexels == 2

\* device allocations that may fail in one run
MaxFailures == 1

\* rendererConfigVK->minDeviceMemoryAllocationSize, a value of the
\* configuration (the default is 1024*1024); small here so that chunks fill up
MinAllocationSize == 4

BufferIds == {1}
TextureIds == {1}
Bytes == {0, 1}
ZeroBytes == {0}
MipCounts == {1, 2}

Max(a, b) == IF a >= b THEN a ELSE b
Min(a, b) == IF a <= b THEN a ELSE b

\* all strings of length n of bytes of B
ByteSeqs(B, n) == [1..n -> B]

\* s[from+1 .. from+n] (0-based offset from)
Slice(s, from, n) == [i \in 1..n |-> s[from + i]]

\* s with s[at+1 .. at+Len(d)] replaced by d (0-based offset at)
Splice(s, at, d) ==
    [i \in 1..Len(s) |-> IF i > at /\ i <= at + Len(d) THEN d[i - at] ELSE s[i]]

---------------------------------------------------------------------------
(* Memory types of the physical device *)

DeviceLocal == "DEVICE_LOCAL"
HostVisible == "HOST_VISIBLE"
HostCoherent == "HOST_COHERENT"

\* VkPhysicalDeviceMemoryProperties::memoryTypes: type index -> property flags
MemoryTypes == <<{DeviceLocal}, {HostVisible, HostCoherent}>>

---------------------------------------------------------------------------
(* Device memory manager: chunks, regions, free lists *)

NoRegion == [chunk |-> 0, offset |-> 0, size |-> 0]

Span(offset, size) == [offset |-> offset, size |-> size]

SpanEnd(sp) == sp.offset + sp.size

AlignUp(x, a) == ((x + a - 1) \div a) * a

\* a free span can hold size bytes at an offset that is a multiple of align
Fits(sp, size, align) == AlignUp(sp.offset, align) + size <= SpanEnd(sp)

\* index of the first free span that fits, 0 if none (first fit)
FindFreeSpan(free, size, align) ==
    LET hits == {i \in 1..Len(free) : Fits(free[i], size, align)}
    IN  IF hits = {} THEN 0 ELSE CHOOSE i \in hits : \A j \in hits : i <= j

\* CarveFree with a fault: what is left of the span behind the region is lost
CarveFree_DropsRest(free, i, off, size) ==
    LET sp    == free[i]
        front == IF off > sp.offset
                 THEN <<Span(sp.offset, off - sp.offset)>> ELSE <<>>
    IN  SubSeq(free, 1, i - 1) \o front \o SubSeq(free, i + 1, Len(free))

\* the free list with [off, off+size) carved out of span i
CarveFree(free, i, off, size) ==
    LET sp    == free[i]
        front == IF off > sp.offset
                 THEN <<Span(sp.offset, off - sp.offset)>> ELSE <<>>
        back  == IF off + size < SpanEnd(sp)
                 THEN <<Span(off + size, SpanEnd(sp) - (off + size))>> ELSE <<>>
    IN  SubSeq(free, 1, i - 1) \o front \o back \o SubSeq(free, i + 1, Len(free))

\* MergeFree with a fault: the span is put in its place in the free list and
\* not merged with the free spans it touches
MergeFree_NoCoalescing(free, sp) ==
    LET IsBefore(f) == f.offset < sp.offset
        IsAfter(f)  == f.offset >= sp.offset
    IN  SelectSeq(free, IsBefore) \o <<sp>> \o SelectSeq(free, IsAfter)

\* the free list with span sp returned, merged with the free spans it touches
MergeFree(free, sp) ==
    LET IsBefore(f) == SpanEnd(f) < sp.offset
        IsAfter(f)  == f.offset > SpanEnd(sp)
        before == SelectSeq(free, IsBefore)
        after  == SelectSeq(free, IsAfter)
        touch  == {i \in 1..Len(free) : ~IsBefore(free[i]) /\ ~IsAfter(free[i])}
        lo     == IF \E i \in touch : free[i].offset < sp.offset
                  THEN (CHOOSE o \in {free[i].offset : i \in touch} :
                            \A i \in touch : o <= free[i].offset)
                  ELSE sp.offset
        hi     == IF \E i \in touch : SpanEnd(free[i]) > SpanEnd(sp)
                  THEN (CHOOSE e \in {SpanEnd(free[i]) : i \in touch} :
                            \A i \in touch : e >= SpanEnd(free[i]))
                  ELSE SpanEnd(sp)
    IN  before \o <<Span(lo, hi - lo)>> \o after

\* NewChunkSize with a fault: the size is not rounded up to the granularity
NewChunkSize_NotRounded(size) == Max(MinAllocationSize, size)

\* size of a chunk created for a request of size bytes
NewChunkSize(size) ==
    ((Max(MinAllocationSize, size) + MinAllocationSize - 1) \div MinAllocationSize)
        * MinAllocationSize

\* FindChunk with a fault: the last chunk with a fitting free span is taken
FindChunk_LastFit(cs, t, size, align) ==
    LET hits == {c \in 1..Len(cs) :
                    cs[c].memType = t /\ FindFreeSpan(cs[c].free, size, align) # 0}
    IN  IF hits = {} THEN 0 ELSE CHOOSE c \in hits : \A d \in hits : c >= d

\* index of the first chunk of memory type t with a fitting free span, 0 if none
FindChunk(cs, t, size, align) ==
    LET hits == {c \in 1..Len(cs) :
                    cs[c].memType = t /\ FindFreeSpan(cs[c].free, size, align) # 0}
    IN  IF hits = {} THEN 0 ELSE CHOOSE c \in hits : \A d \in hits : c <= d

\* memory types acceptable for a request, in ascending order of index
AcceptableTypes(typeBits, flags) ==
    {t \in typeBits : t \in 1..Len(MemoryTypes) /\ flags \subseteq MemoryTypes[t]}

\* the regions leased from chunk c
LeasedOf(cs, c) == {[chunk |-> c, offset |-> u.offset, size |-> u.size] : u \in cs[c].used}

\* all regions currently leased from the manager
Leased(cs) == UNION {LeasedOf(cs, c) : c \in 1..Len(cs)}


---------------------------------------------------------------------------
(* Objects *)

TransferSrc == "TRANSFER_SRC"
TransferDst == "TRANSFER_DST"

\* a VKDeviceBuffer: native buffer, its memory region, its memory contents
NoStaging == [valid |-> FALSE, region |-> NoRegion, size |-> 0, usage |-> {}, mem |-> <<>>]

\* a VKBuffer: the primary device buffer and the internal staging buffer
NoBuffer == [live |-> FALSE, size |-> 0, region |-> NoRegion, mem |-> <<>>,
             staging |-> NoStaging]

\* the resource a command or a host access refers to
NoHandle == [kind |-> "none", id |-> 0]
TmpHandle == [kind |-> "tmp", id |-> 0]
BufHandle(b) == [kind |-> "buf", id |-> b]
StgHandle(b) == [kind |-> "stg", id |-> b]
ImgHandle(t) == [kind |-> "img", id |-> t]

NoImage == [id |-> 0, mips |-> {}]

Undefined == "UNDEFINED"
TransferDstOptimal == "TRANSFER_DST_OPTIMAL"
TransferSrcOptimal == "TRANSFER_SRC_OPTIMAL"
ShaderReadOnlyOptimal == "SHADER_READ_ONLY_OPTIMAL"

\* a VKTexture: image, its memory region, and per MIP level (level m at index
\* m + 1) the image layout and the texels
NoTexture == [live |-> FALSE, type |-> "none", texels |-> 0, mips |-> 0,
              compressed |-> FALSE,
              region |-> NoRegion, layout |-> <<>>, mem |-> <<>>]

\* an entry of a call's event log
Event(ev, region, src, dst, old, new, img) ==
    [ev |-> ev, region |-> region, src |-> src, dst |-> dst,
     old |-> old, new |-> new, img |-> img]

RegionEvent(ev, region) == Event(ev, region, NoRegion, NoRegion, "", "", NoImage)

---------------------------------------------------------------------------
(* State of a call in progress: the render system's objects, the local     *)
(* staging buffer, the command buffer being recorded, the events so far,   *)
(* and the error that ended the call (an exception), if any.               *)

NoError == "none"

\* the call state at entry.  env holds what the device decides during the call:
\*   devOk   outcome of each device allocation (vkAllocateMemory), in order
\*   ubSkip  the device drops a copy whose destination lacks TRANSFER_DST usage,
\*           or whose image is multisampled
\*   discard a transition declared from the undefined layout discards contents
\*   gHost   contents of freshly allocated host-visible memory
\*   gDev    contents of freshly allocated or discarded device-local memory
Start(env) ==
    [chunks |-> chunks, buffers |-> buffers, textures |-> textures,
     tmp |-> NoStaging, cmd |-> <<>>, log |-> <<>>, err |-> NoError,
     devOk |-> env.devOk, ubSkip |-> env.ubSkip, discard |-> env.discard,
     gHost |-> env.gHost, gDev |-> env.gDev, ret |-> NoRegion, out |-> <<>>]

Emit(s, e) == [s EXCEPT !.log = Append(@, e)]

Throw(s, e) == [s EXCEPT !.err = e]

\* the device buffer a handle names
DeviceBufferOf(s, h) ==
    IF h.kind = "tmp" THEN s.tmp
    ELSE IF h.kind = "stg" THEN s.buffers[h.id].staging
    ELSE [valid |-> TRUE, region |-> s.buffers[h.id].region,
          size |-> s.buffers[h.id].size, usage |-> {TransferSrc, TransferDst},
          mem |-> s.buffers[h.id].mem]

\* the call state with the memory contents of the buffer a handle names set
SetMem(s, h, m) ==
    IF h.kind = "tmp" THEN [s EXCEPT !.tmp.mem = m]
    ELSE IF h.kind = "stg" THEN [s EXCEPT !.buffers[h.id].staging.mem = m]
    ELSE [s EXCEPT !.buffers[h.id].mem = m]

---------------------------------------------------------------------------
(* VKDeviceMemoryManager::Allocate and Release *)

\* vkAllocateMemory succeeds
DeviceAllocOk(s) == s.devOk = <<>> \/ Head(s.devOk)

PopDevOk(s) == [s EXCEPT !.devOk = IF @ = <<>> THEN <<>> ELSE Tail(@)]

\* lease [off, off+size) of free span i of chunk c
LeaseAt(s, c, i, off, size) ==
    Emit([s EXCEPT !.chunks[c].free = CarveFree(@, i, off, size),
                   !.chunks[c].used = @ \union {Span(off, size)},
                   !.ret = [chunk |-> c, offset |-> off, size |-> size]],
         RegionEvent("Allocate", [chunk |-> c, offset |-> off, size |-> size]))

\* LeaseIn with a fault: the region starts where the free span starts
LeaseIn_Unaligned(s, c, i, size, align) ==
    LeaseAt(s, c, i, s.chunks[c].free[i].offset, size)

\* lease size bytes, aligned, from free span i of chunk c
LeaseIn(s, c, i, size, align) ==
    LeaseAt(s, c, i, AlignUp(s.chunks[c].free[i].offset, align), size)

\* lease size bytes, aligned, from the first fitting free span of chunk c
Lease(s, c, size, align) ==
    LeaseIn(s, c, FindFreeSpan(s.chunks[c].free, size, align), size, align)

NewChunk(t, size) ==
    [memType |-> t, size |-> NewChunkSize(size),
     free |-> <<Span(0, NewChunkSize(size))>>, used |-> {}]

\* a new chunk of memory type t, created for a request of size bytes
AddChunk(s, t, size) == [PopDevOk(s) EXCEPT !.chunks = Append(@, NewChunk(t, size))]

\* the chunk to lease from: c if it is a chunk, else a new chunk of type t
ChunkFor(s, c, t, size) == IF c # 0 THEN s ELSE AddChunk(s, t, size)

RECURSIVE AllocateFrom(_, _, _, _)

\* AllocateIn with a fault: when the device allocation fails for one memory
\* type, the memory types left are not tried
AllocateIn_NoFallback(s, types, t, c, size, align) ==
    IF c # 0 \/ DeviceAllocOk(s)
    THEN Lease(ChunkFor(s, c, t, size),
               IF c # 0 THEN c ELSE Len(s.chunks) + 1, size, align)
    ELSE Throw(PopDevOk(s), "OutOfMemory")

\* the request is served from memory type t: from chunk c if there is one (c # 0),
\* else from a new chunk, else from the memory types left
AllocateIn(s, types, t, c, size, align) ==
    IF c # 0 \/ DeviceAllocOk(s)
    THEN Lease(ChunkFor(s, c, t, size),
               IF c # 0 THEN c ELSE Len(s.chunks) + 1, size, align)
    ELSE AllocateFrom(PopDevOk(s), types \ {t}, size, align)

\* the least of a non-empty set of type indexes
FirstType(types) == CHOOSE x \in types : \A y \in types : x <= y

AllocateOfType(s, types, t, size, align) ==
    AllocateIn(s, types, t, FindChunk(s.chunks, t, size, align), size, align)

AllocateFrom(s, types, size, align) ==
    IF types = {} THEN Throw(s, "OutOfMemory")
    ELSE AllocateOfType(s, types, FirstType(types), size, align)

\* Allocate(requirements, desiredMemoryTypeFlags): the region is left in s.ret
Allocate(s, req, flags) ==
    IF s.err # NoError THEN s
    ELSE AllocateFrom(s, AcceptableTypes(req.memoryTypeBits, flags),
                      req.size, req.alignment)

\* Release with a fault: the span of a region that is not leased is put on the
\* free list once more
Release_NoLeaseCheck(s, r) ==
    IF s.err # NoError THEN s
    ELSE IF r \notin Leased(s.chunks)
    THEN Emit([s EXCEPT !.chunks[r.chunk].free = Append(@, Span(r.offset, r.size))],
              RegionEvent("Release", r))
    ELSE Emit([s EXCEPT !.chunks[r.chunk].free = MergeFree(@, Span(r.offset, r.size)),
                        !.chunks[r.chunk].used = @ \ {Span(r.offset, r.size)}],
              RegionEvent("Release", r))

\* Release(region): the span goes back to the free list of its chunk
Release(s, r) ==
    IF s.err # NoError THEN s
    ELSE IF r \notin Leased(s.chunks)
    THEN Emit(s, RegionEvent("InvalidRelease", r))
    ELSE Emit([s EXCEPT !.chunks[r.chunk].free = MergeFree(@, Span(r.offset, r.size)),
                        !.chunks[r.chunk].used = @ \ {Span(r.offset, r.size)}],
              RegionEvent("Release", r))

\* vkGetBufferMemoryRequirements / vkGetImageMemoryRequirements
MemoryRequirements(size, deviceLocal) ==
    [size |-> size, alignment |-> IF deviceLocal THEN 2 ELSE 1,
     memoryTypeBits |-> 1..Len(MemoryTypes)]


---------------------------------------------------------------------------
(* VKDevice: host access to buffer memory, command recording, flush *)

\* VKDeviceMemory::Map succeeds only on host-visible memory
CanMap(s, r) ==
    /\ r # NoRegion
    /\ HostVisible \in MemoryTypes[s.chunks[r.chunk].memType]

\* Map with a fault: the memory type of the chunk is not looked at
Map_Unchecked(s, r) ==
    IF s.err # NoError THEN s ELSE Emit(s, RegionEvent("Map", r))

\* Map(region): fails with InvalidAccess when the chunk of the region is not of
\* a host-visible memory type, and maps nothing then
Map(s, r) ==
    IF s.err # NoError THEN s
    ELSE IF ~CanMap(s, r) THEN Throw(s, "InvalidAccess")
    ELSE Emit(s, RegionEvent("Map", r))

\* Unmap(region)
Unmap(s, r) == IF s.err # NoError THEN s ELSE Emit(s, RegionEvent("Unmap", r))

\* memcpy(memory, data, size) into the mapped memory of device buffer h
CopyIn(s, h, db, data, size, offset) ==
    IF s.err # NoError THEN s
    ELSE Emit(SetMem(s, h, Splice(db.mem, offset, Slice(data, 0, size))),
              RegionEvent("HostWrite", db.region))

\* memcpy(data, memory, size) out of the mapped memory of a device buffer
CopyOut(s, db, size, offset) ==
    IF s.err # NoError THEN s
    ELSE Emit([s EXCEPT !.out = Slice(db.mem, offset, size)],
              RegionEvent("HostRead", db.region))

\* device_.WriteBuffer(buffer, data, size, offset): map, copy in, unmap; nothing
\* when the buffer has no memory region
MappedWrite(s, h, db, data, size, offset) ==
    IF s.err # NoError \/ db.region = NoRegion THEN s
    ELSE Unmap(CopyIn(Map(s, db.region), h, db, data, size, offset), db.region)

DeviceWriteBuffer(s, h, data, size, offset) ==
    MappedWrite(s, h, DeviceBufferOf(s, h), data, size, offset)

\* device_.ReadBuffer(buffer, data, size, offset): map, copy out, unmap; nothing
\* when the buffer has no memory region
MappedRead(s, db, size, offset) ==
    IF s.err # NoError \/ db.region = NoRegion THEN s
    ELSE Unmap(CopyOut(Map(s, db.region), db, size, offset), db.region)

DeviceReadBuffer(s, h, size, offset) ==
    MappedRead(s, DeviceBufferOf(s, h), size, offset)

AllocCommandBuffer(s) == IF s.err # NoError THEN s ELSE [s EXCEPT !.cmd = <<>>]

\* a command is appended to the command buffer; nothing runs before the flush
Record(s, c, e) ==
    IF s.err # NoError THEN s ELSE Emit([s EXCEPT !.cmd = Append(@, c)], e)

\* vkCmdCopyBuffer as the device runs it
ExecCopyBuffer(s, c) ==
    LET src == DeviceBufferOf(s, c.src)
        dst == DeviceBufferOf(s, c.dst)
    IN  IF TransferDst \notin dst.usage /\ s.ubSkip THEN s
        ELSE SetMem(s, c.dst, Splice(dst.mem, c.dstOff, Slice(src.mem, c.srcOff, c.size)))

\* size in texels of MIP level m of an image with the given base size
MipSize(texels, m) == Max(1, texels \div (2 ^ m))

\* a MIP level computed from the level above it
Downsample(prev, n) == [i \in 1..n |-> prev[Min(2 * i - 1, Len(prev))]]

\* vkCmdPipelineBarrier as the device runs it: the levels take the new layout; a
\* transition declared from the undefined layout may drop what they held
ExecTransition(s, c) ==
    LET tex == s.textures[c.tex]
    IN  [s EXCEPT !.textures[c.tex].layout =
                      [m \in 1..tex.mips |-> IF (m - 1) \in c.mips THEN c.new ELSE @[m]],
                  !.textures[c.tex].mem =
                      [m \in 1..tex.mips |->
                          IF (m - 1) \in c.mips /\ c.old = Undefined /\ s.discard
                          THEN Slice(s.gDev, 0, Len(@[m])) ELSE @[m]]]

\* IsMultiSampleTexture(type)
IsMultiSampleTexture(type) == type \in {"Texture2DMS", "Texture2DMSArray"}

\* vkCmdCopyBufferToImage as the device runs it; the image of a copy must have
\* one sample per texel, the device performs or drops a copy that breaks this
ExecCopyBufferToImage(s, c) ==
    LET src == DeviceBufferOf(s, c.src)
    IN  IF IsMultiSampleTexture(s.textures[c.tex].type) /\ s.ubSkip THEN s
        ELSE [s EXCEPT !.textures[c.tex].mem[c.mip + 1] =
                           Splice(@, c.offset, Slice(src.mem, 0, c.extent))]

\* vkCmdCopyImageToBuffer as the device runs it, with the same condition
ExecCopyImageToBuffer(s, c) ==
    LET dst == DeviceBufferOf(s, c.dst)
    IN  IF IsMultiSampleTexture(s.textures[c.tex].type) /\ s.ubSkip THEN s
        ELSE SetMem(s, c.dst,
                    Splice(dst.mem, 0,
                           Slice(s.textures[c.tex].mem[c.mip + 1], c.offset, c.extent)))

\* the MIP chain below the base level, computed level by level
ExecGenerateMips(s, c) ==
    LET tex == s.textures[c.tex]
        F[m \in 1..tex.mips] ==
            IF m = 1 THEN tex.mem[1] ELSE Downsample(F[m - 1], Len(tex.mem[m]))
    IN  [s EXCEPT !.textures[c.tex].mem = [m \in 1..tex.mips |-> F[m]]]

Exec(s, c) ==
    IF c.op = "CopyBuffer" THEN ExecCopyBuffer(s, c)
    ELSE IF c.op = "Transition" THEN ExecTransition(s, c)
    ELSE IF c.op = "CopyBufferToImage" THEN ExecCopyBufferToImage(s, c)
    ELSE IF c.op = "CopyImageToBuffer" THEN ExecCopyImageToBuffer(s, c)
    ELSE IF c.op = "GenerateMips" THEN ExecGenerateMips(s, c)
    ELSE s

RECURSIVE ExecAll(_, _)
ExecAll(s, cs) == IF cs = <<>> THEN s ELSE ExecAll(Exec(s, Head(cs)), Tail(cs))

\* device_.FlushCommandBuffer: submit, then wait until the queue is idle
FlushCommandBuffer(s) ==
    IF s.err # NoError THEN s
    ELSE Emit([ExecAll(s, s.cmd) EXCEPT !.cmd = <<>>], RegionEvent("Flush", NoRegion))

\* device_.CopyBuffer(src, dst, size, srcOffset, dstOffset): a one-shot command
\* buffer with the copy, flushed before the call returns
CopyBuffer(s, src, dst, size, srcOffset, dstOffset) ==
    FlushCommandBuffer(
        Record(AllocCommandBuffer(s),
               [op |-> "CopyBuffer", src |-> src, dst |-> dst,
                srcOff |-> srcOffset, dstOff |-> dstOffset, size |-> size],
               Event("CopyBuffer", NoRegion, DeviceBufferOf(s, src).region,
                     DeviceBufferOf(s, dst).region, "", "", NoImage)))

---------------------------------------------------------------------------
(* VKDevice: image commands *)

TransitionImageLayout(s, t, oldLayout, newLayout, mips) ==
    Record(s, [op |-> "Transition", tex |-> t, mips |-> mips,
               old |-> oldLayout, new |-> newLayout],
           Event("Transition", NoRegion, NoRegion, NoRegion, oldLayout, newLayout,
                 [id |-> t, mips |-> mips]))

CopyBufferToImage(s, src, t, offset, extent, mip) ==
    Record(s, [op |-> "CopyBufferToImage", src |-> src, tex |-> t, mip |-> mip,
               offset |-> offset, extent |-> extent],
           Event("CopyBufferToImage", NoRegion, DeviceBufferOf(s, src).region, NoRegion,
                 "", "", [id |-> t, mips |-> {mip}]))

CopyImageToBuffer(s, t, dst, offset, extent, mip) ==
    Record(s, [op |-> "CopyImageToBuffer", dst |-> dst, tex |-> t, mip |-> mip,
               offset |-> offset, extent |-> extent],
           Event("CopyImageToBuffer", NoRegion, NoRegion, DeviceBufferOf(s, dst).region,
                 "", "", [id |-> t, mips |-> {mip}]))

GenerateMips(s, t, mips) ==
    Record(s, [op |-> "GenerateMips", tex |-> t],
           Event("GenerateMips", NoRegion, NoRegion, NoRegion, "", "",
                 [id |-> t, mips |-> mips]))

---------------------------------------------------------------------------
(* VKDeviceBuffer *)

\* VKDeviceBuffer(device, createInfo, deviceMemoryMngr, memoryPropertyFlags):
\* the native buffer is created and bound to a freshly allocated region
BindDeviceBuffer(s, createInfo) ==
    IF s.err # NoError THEN s
    ELSE [s EXCEPT !.tmp = [valid |-> TRUE, region |-> s.ret,
                            size |-> createInfo.size, usage |-> createInfo.usage,
                            mem |-> Slice(s.gHost, 0, createInfo.size)]]

NewDeviceBuffer(s, createInfo, flags) ==
    BindDeviceBuffer(
        Allocate(s, MemoryRequirements(createInfo.size, DeviceLocal \in flags), flags),
        createInfo)

\* VKDeviceBuffer::ReleaseMemoryRegion: the region, if any, goes back to the manager
\* the device buffer a handle names holds no region any more
ClearRegion(s, h) ==
    IF h.kind = "tmp" THEN [s EXCEPT !.tmp.region = NoRegion]
    ELSE IF h.kind = "stg" THEN [s EXCEPT !.buffers[h.id].staging.region = NoRegion]
    ELSE [s EXCEPT !.buffers[h.id].region = NoRegion]

ReleaseRegionOf(s, h, r) ==
    IF s.err # NoError \/ r = NoRegion THEN s ELSE ClearRegion(Release(s, r), h)

ReleaseMemoryRegion(s, h) == ReleaseRegionOf(s, h, DeviceBufferOf(s, h).region)


---------------------------------------------------------------------------
(* VKRenderSystem: buffers *)

CPURead == "Read"
CPUWrite == "Write"

\* host memory handed to a call: a null pointer, or a pointer to bytes
NullData == [null |-> TRUE, bytes |-> <<>>]
Data(d) == [null |-> FALSE, bytes |-> d]

GetStagingVkBufferUsageFlags(cpuAccessFlags) ==
    IF CPUWrite \in cpuAccessFlags
    THEN {TransferSrc, TransferDst}
    ELSE {TransferSrc}

\* CreateStagingBuffer with a fault: the region is requested from device-local
\* memory
CreateStagingBuffer_DeviceLocal(s, createInfo) ==
    IF s.err # NoError THEN s
    ELSE NewDeviceBuffer(s, createInfo, {DeviceLocal})

CreateStagingBuffer(s, createInfo) ==
    IF s.err # NoError THEN s
    ELSE NewDeviceBuffer(s, createInfo, {HostVisible, HostCoherent})

\* InitializeStagingBuffer with a fault: the host data is never written
InitializeStagingBuffer_NoWrite(s, data, dataSize) == s

\* if (data != nullptr && dataSize > 0) device_.WriteBuffer(...)
InitializeStagingBuffer(s, data, dataSize) ==
    IF ~data.null /\ dataSize > 0
    THEN DeviceWriteBuffer(s, TmpHandle, data.bytes, dataSize, 0)
    ELSE s

CreateStagingBufferAndInitialize(s, createInfo, data, dataSize) ==
    InitializeStagingBuffer(CreateStagingBuffer(s, createInfo), data, dataSize)

\* TakeOwnership(buffers_, MakeUnique<VKBuffer>(device_, bufferDesc)): the buffer
\* object joins the registry; it has no memory yet
TakeOwnershipBuffer(s, b, bufferDesc) ==
    IF s.err # NoError THEN s
    ELSE [s EXCEPT !.buffers[b] = [live |-> TRUE, size |-> bufferDesc.size,
                                   region |-> NoRegion, mem |-> <<>>,
                                   staging |-> NoStaging]]

\* VKBuffer::BindMemoryRegion
BindMemoryRegion(s, b, r) ==
    IF s.err # NoError THEN s
    ELSE [s EXCEPT !.buffers[b].region = r,
                   !.buffers[b].mem = Slice(s.gDev, 0, s.buffers[b].size)]

\* VKBuffer::TakeStagingBuffer(std::move(stagingBuffer))
TakeStagingBuffer(s, b) ==
    IF s.err # NoError THEN s
    ELSE [s EXCEPT !.buffers[b].staging = s.tmp, !.tmp = NoStaging]

\* RetainsStaging with a fault: the DynamicUsage flag is not looked at
RetainsStaging_CpuAccessOnly(bufferDesc) == bufferDesc.cpuAccessFlags # {}

\* the buffer keeps its staging buffer
RetainsStaging(bufferDesc) ==
    bufferDesc.cpuAccessFlags # {} \/ bufferDesc.dynamicUsage

\* CreateBuffer with a fault: the staging region goes back to the manager also
\* when the buffer keeps the staging buffer
CreateBuffer_ReleaseRetained(s, b, bufferDesc, initialData) ==
    LET Bind(x) == BindMemoryRegion(x, b, x.ret)
        KeepOrRelease(x) ==
            IF RetainsStaging(bufferDesc)
            THEN TakeStagingBuffer(x, b)
            ELSE ClearRegion(x, TmpHandle)
        ReleaseStaging(x) == Release(x, x.tmp.region)
    IN  KeepOrRelease(ReleaseStaging(
            CopyBuffer(Bind(Allocate(
                           TakeOwnershipBuffer(
                               CreateStagingBufferAndInitialize(
                                   s, [size  |-> bufferDesc.size,
                                       usage |-> GetStagingVkBufferUsageFlags(
                                                     bufferDesc.cpuAccessFlags)],
                                   initialData, bufferDesc.size),
                               b, bufferDesc),
                           MemoryRequirements(bufferDesc.size, TRUE), {DeviceLocal})),
                       TmpHandle, BufHandle(b), bufferDesc.size, 0, 0)))

CreateBuffer(s, b, bufferDesc, initialData) ==
    LET Bind(x) == BindMemoryRegion(x, b, x.ret)
        KeepOrRelease(x) ==
            IF RetainsStaging(bufferDesc)
            THEN TakeStagingBuffer(x, b)
            ELSE ReleaseMemoryRegion(x, TmpHandle)
        s1 == CreateStagingBufferAndInitialize(
                  s, [size  |-> bufferDesc.size,
                      usage |-> GetStagingVkBufferUsageFlags(bufferDesc.cpuAccessFlags)],
                  initialData, bufferDesc.size)
        s2 == TakeOwnershipBuffer(s1, b, bufferDesc)
        s3 == Allocate(s2, MemoryRequirements(bufferDesc.size, TRUE), {DeviceLocal})
        s4 == Bind(s3)
        s5 == CopyBuffer(s4, TmpHandle, BufHandle(b), bufferDesc.size, 0, 0)
    IN  KeepOrRelease(s5)

\* RemoveFromUniqueSet(buffers_, &buffer)
RemoveBuffer(s, b) ==
    IF s.err # NoError THEN s ELSE [s EXCEPT !.buffers[b] = NoBuffer]

ReleaseBuffer(s, b) ==
    LET s1 == ReleaseMemoryRegion(s, BufHandle(b))
        s2 == ReleaseMemoryRegion(s1, StgHandle(b))
    IN  RemoveBuffer(s2, b)

\* WriteBuffer with a fault: the retained path writes the host data to the
\* start of the staging buffer
WriteBuffer_StagingAtStart(s, b, offset, data, dataSize) ==
    IF s.buffers[b].staging.valid
    THEN CopyBuffer(DeviceWriteBuffer(s, StgHandle(b), data, dataSize, 0),
                    StgHandle(b), BufHandle(b), dataSize, 0, offset)
    ELSE ReleaseMemoryRegion(
             CopyBuffer(CreateStagingBufferAndInitialize(
                            s, [size |-> dataSize, usage |-> {TransferSrc, TransferDst}],
                            Data(data), dataSize),
                        TmpHandle, BufHandle(b), dataSize, 0, offset),
             TmpHandle)

\* WriteBuffer with a fault: the transient path copies to the start of the
\* buffer instead of the offset
WriteBuffer_CopyToStart(s, b, offset, data, dataSize) ==
    IF s.buffers[b].staging.valid
    THEN CopyBuffer(DeviceWriteBuffer(s, StgHandle(b), data, dataSize, offset),
                    StgHandle(b), BufHandle(b), dataSize, offset, offset)
    ELSE ReleaseMemoryRegion(
             CopyBuffer(CreateStagingBufferAndInitialize(
                            s, [size |-> dataSize, usage |-> {TransferSrc, TransferDst}],
                            Data(data), dataSize),
                        TmpHandle, BufHandle(b), dataSize, 0, 0),
             TmpHandle)

WriteBuffer(s, b, offset, data, dataSize) ==
    IF s.buffers[b].staging.valid
    THEN LET s1 == DeviceWriteBuffer(s, StgHandle(b), data, dataSize, offset)
         IN  CopyBuffer(s1, StgHandle(b), BufHandle(b), dataSize, offset, offset)
    ELSE LET s1 == CreateStagingBufferAndInitialize(
                       s, [size |-> dataSize, usage |-> {TransferSrc, TransferDst}],
                       Data(data), dataSize)
             s2 == CopyBuffer(s1, TmpHandle, BufHandle(b), dataSize, 0, offset)
         IN  ReleaseMemoryRegion(s2, TmpHandle)

\* ReadBuffer with a fault: the staging memory is read on the host before the
\* copy from the buffer is made
ReadBuffer_ReadBeforeCopy(s, b, offset, dataSize) ==
    IF s.buffers[b].staging.valid
    THEN CopyBuffer(DeviceReadBuffer(s, StgHandle(b), dataSize, offset),
                    BufHandle(b), StgHandle(b), dataSize, offset, offset)
    ELSE ReleaseMemoryRegion(
             CopyBuffer(DeviceReadBuffer(
                            CreateStagingBuffer(
                                s, [size |-> dataSize, usage |-> {TransferSrc, TransferDst}]),
                            TmpHandle, dataSize, 0),
                        BufHandle(b), TmpHandle, dataSize, offset, 0),
             TmpHandle)

ReadBuffer(s, b, offset, dataSize) ==
    IF s.buffers[b].staging.valid
    THEN LET s1 == CopyBuffer(s, BufHandle(b), StgHandle(b), dataSize, offset, offset)
         IN  DeviceReadBuffer(s1, StgHandle(b), dataSize, offset)
    ELSE LET s1 == CreateStagingBuffer(
                       s, [size |-> dataSize, usage |-> {TransferSrc, TransferDst}])
             s2 == CopyBuffer(s1, BufHandle(b), TmpHandle, dataSize, offset, 0)
             s3 == DeviceReadBuffer(s2, TmpHandle, dataSize, 0)
         IN  ReleaseMemoryRegion(s3, TmpHandle)

---------------------------------------------------------------------------
(* Image data and formats.  The native format of a texture stores one byte  *)
(* per texel; a source image has texelSize bytes per texel, of which the    *)
(* conversion to the native format keeps the first.                         *)

NoImageDesc == [present |-> FALSE, data |-> <<>>, dataSize |-> 0, texelSize |-> 1]

\* GetMemoryFootprint(format, numTexels) for the native format
GetMemoryFootprint(numTexels) == numTexels

\* formatAttribs.bitSize > 0 && (formatAttribs.flags & IsCompressed) == 0
IsConvertible(compressed) == ~compressed

\* ConvertImageBuffer: null if the source already has the native format
ConvertImageBuffer(imageDesc) ==
    IF imageDesc.texelSize = 1 THEN NullData
    ELSE Data([i \in 1..(imageDesc.dataSize \div imageDesc.texelSize) |->
                  imageDesc.data[(i - 1) * imageDesc.texelSize + 1]])

\* GenerateImageBuffer: every texel set to the fill colour
GenerateImageBuffer(imageSize, fillColor) == Data([i \in 1..imageSize |-> fillColor])

\* AssertImageDataSize(dataSize, requiredDataSize)
AssertImageDataSize(s, dataSize, requiredDataSize) ==
    IF s.err # NoError THEN s
    ELSE IF dataSize < requiredDataSize THEN Throw(s, "ImageDataSizeMismatch")
    ELSE s

\* MustGenerateMipsOnCreate(textureDesc)
MustGenerateMipsOnCreate(textureDesc) ==
    textureDesc.generateMips /\ textureDesc.mips > 1

---------------------------------------------------------------------------
(* VKRenderSystem: textures *)

\* MakeUnique<VKTexture>(device_, *deviceMemoryMngr_, textureDesc): the image is
\* created and bound to a freshly allocated device-local region; the texture is
\* not in the registry yet
\* size in texels of an image with all its MIP levels
ImageSize(texels, mips) ==
    LET Sum[m \in 0..mips] == IF m = 0 THEN 0 ELSE Sum[m - 1] + MipSize(texels, m - 1)
    IN  Sum[mips]

BindImage(s, t, textureDesc) ==
    IF s.err # NoError THEN s
    ELSE [s EXCEPT !.textures[t] =
             [live |-> FALSE, type |-> textureDesc.type,
              texels |-> textureDesc.texels, mips |-> textureDesc.mips,
              compressed |-> textureDesc.compressed, region |-> s.ret,
              layout |-> [m \in 1..textureDesc.mips |-> Undefined],
              mem |-> [m \in 1..textureDesc.mips |->
                          Slice(s.gDev, 0, MipSize(textureDesc.texels, m - 1))]]]

NewTexture(s, t, textureDesc) ==
    BindImage(
        Allocate(s, MemoryRequirements(ImageSize(textureDesc.texels, textureDesc.mips), TRUE),
                 {DeviceLocal}),
        t, textureDesc)

\* TakeOwnership(textures_, std::move(textureVK)): the texture joins the registry
TakeOwnershipTexture(s, t) ==
    IF s.err # NoError THEN s ELSE [s EXCEPT !.textures[t].live = TRUE]

\* the source of the initial data of a new texture, and the validation it passed
\* or failed: [s |-> call state, data |-> host data]
InitialImageData(s, textureDesc, imageDesc) ==
    LET imageSize       == textureDesc.texels
        initialDataSize == GetMemoryFootprint(imageSize)
        intermediateData ==
            IF imageDesc.present
            THEN IF IsConvertible(textureDesc.compressed)
                 THEN ConvertImageBuffer(imageDesc) ELSE NullData
            ELSE IF IsConvertible(textureDesc.compressed)
                 THEN GenerateImageBuffer(imageSize, textureDesc.clearValue)
                 ELSE Data(Slice(s.gHost, 0, initialDataSize))
    IN  IF imageDesc.present
        THEN IF ~intermediateData.null
             THEN [s    |-> AssertImageDataSize(s, imageDesc.dataSize,
                                                imageSize * imageDesc.texelSize),
                   data |-> intermediateData]
             ELSE [s    |-> AssertImageDataSize(s, imageDesc.dataSize, initialDataSize),
                   data |-> Data(imageDesc.data)]
        ELSE IF ~textureDesc.noInitialData
        THEN [s |-> s, data |-> intermediateData]
        ELSE [s |-> s, data |-> NullData]

\* CreateTexture with a fault: the copy into the image is recorded before the
\* transition to the transfer-destination layout
CreateTexture_CopyFirst(s, t, textureDesc, imageDesc) ==
    LET imageSize       == textureDesc.texels
        initialDataSize == GetMemoryFootprint(imageSize)
        subresource     == 0..(textureDesc.mips - 1)
        GenerateMipsIfRequested(x) ==
            IF imageDesc.present /\ MustGenerateMipsOnCreate(textureDesc)
            THEN GenerateMips(x, t, subresource) ELSE x
        Stage(init) ==
            CreateStagingBufferAndInitialize(
                init.s, [size |-> initialDataSize, usage |-> {TransferSrc}],
                init.data, initialDataSize)
    IN  TakeOwnershipTexture(
            ReleaseMemoryRegion(
                FlushCommandBuffer(
                    GenerateMipsIfRequested(
                        TransitionImageLayout(
                            TransitionImageLayout(
                                CopyBufferToImage(
                                    AllocCommandBuffer(
                                        NewTexture(
                                            Stage(InitialImageData(s, textureDesc,
                                                                   imageDesc)),
                                            t, textureDesc)),
                                    TmpHandle, t, 0, imageSize, 0),
                                t, Undefined, TransferDstOptimal, subresource),
                            t, TransferDstOptimal, ShaderReadOnlyOptimal, subresource))),
                TmpHandle),
            t)

\* CreateTexture with a fault: MIP-maps are generated whenever the descriptor
\* asks for them, with or without initial image data
CreateTexture_MipsWithoutImage(s, t, textureDesc, imageDesc) ==
    LET imageSize       == textureDesc.texels
        initialDataSize == GetMemoryFootprint(imageSize)
        subresource     == 0..(textureDesc.mips - 1)
        GenerateMipsIfRequested(x) ==
            IF MustGenerateMipsOnCreate(textureDesc)
            THEN GenerateMips(x, t, subresource) ELSE x
        Stage(init) ==
            CreateStagingBufferAndInitialize(
                init.s, [size |-> initialDataSize, usage |-> {TransferSrc}],
                init.data, initialDataSize)
    IN  TakeOwnershipTexture(
            ReleaseMemoryRegion(
                FlushCommandBuffer(
                    GenerateMipsIfRequested(
                        TransitionImageLayout(
                            CopyBufferToImage(
                                TransitionImageLayout(
                                    AllocCommandBuffer(
                                        NewTexture(
                                            Stage(InitialImageData(s, textureDesc,
                                                                   imageDesc)),
                                            t, textureDesc)),
                                    t, Undefined, TransferDstOptimal, subresource),
                                TmpHandle, t, 0, imageSize, 0),
                            t, TransferDstOptimal, ShaderReadOnlyOptimal, subresource))),
                TmpHandle),
            t)

\* CreateTexture with a fault: the MIP-map generation is recorded before the
\* transition to the shader-read-only layout
CreateTexture_MipsBeforeTransition(s, t, textureDesc, imageDesc) ==
    LET imageSize       == textureDesc.texels
        initialDataSize == GetMemoryFootprint(imageSize)
        subresource     == 0..(textureDesc.mips - 1)
        GenerateMipsIfRequested(x) ==
            IF imageDesc.present /\ MustGenerateMipsOnCreate(textureDesc)
            THEN GenerateMips(x, t, subresource) ELSE x
        Stage(init) ==
            CreateStagingBufferAndInitialize(
                init.s, [size |-> initialDataSize, usage |-> {TransferSrc}],
                init.data, initialDataSize)
    IN  TakeOwnershipTexture(
            ReleaseMemoryRegion(
                FlushCommandBuffer(
                    TransitionImageLayout(
                        GenerateMipsIfRequested(
                            CopyBufferToImage(
                                TransitionImageLayout(
                                    AllocCommandBuffer(
                                        NewTexture(
                                            Stage(InitialImageData(s, textureDesc,
                                                                   imageDesc)),
                                            t, textureDesc)),
                                    t, Undefined, TransferDstOptimal, subresource),
                                TmpHandle, t, 0, imageSize, 0)),
                        t, TransferDstOptimal, ShaderReadOnlyOptimal, subresource)),
                TmpHandle),
            t)

CreateTexture(s, t, textureDesc, imageDesc) ==
    LET imageSize       == textureDesc.texels
        initialDataSize == GetMemoryFootprint(imageSize)
        GenerateMipsIfRequested(x) ==
            IF imageDesc.present /\ MustGenerateMipsOnCreate(textureDesc)
            THEN GenerateMips(x, t, 0..(textureDesc.mips - 1)) ELSE x
        Stage(init) ==
            CreateStagingBufferAndInitialize(
                init.s, [size |-> initialDataSize, usage |-> {TransferSrc}],
                init.data, initialDataSize)
        s1 == Stage(InitialImageData(s, textureDesc, imageDesc))
        s2 == NewTexture(s1, t, textureDesc)
        subresource == 0..(textureDesc.mips - 1)
        s3 == TransitionImageLayout(AllocCommandBuffer(s2), t,
                                    Undefined, TransferDstOptimal, subresource)
        s4 == CopyBufferToImage(s3, TmpHandle, t, 0, imageSize, 0)
        s5 == TransitionImageLayout(s4, t, TransferDstOptimal, ShaderReadOnlyOptimal,
                                    subresource)
        s6 == GenerateMipsIfRequested(s5)
        s7 == FlushCommandBuffer(s6)
        s8 == ReleaseMemoryRegion(s7, TmpHandle)
    IN  TakeOwnershipTexture(s8, t)

\* RemoveFromUniqueSet(textures_, &texture)
RemoveTexture(s, t) ==
    IF s.err # NoError THEN s ELSE [s EXCEPT !.textures[t] = NoTexture]

ReleaseTexture(s, t) == RemoveTexture(Release(s, s.textures[t].region), t)

\* WriteImageData with a fault: an image that is converted must have one byte
\* more than its size in the source format
WriteImageData_OneByteMore(s, compressed, imageSize, imageDesc) ==
    LET imageDataSize == GetMemoryFootprint(imageSize)
        intermediateData ==
            IF IsConvertible(compressed) THEN ConvertImageBuffer(imageDesc) ELSE NullData
    IN  IF ~intermediateData.null
        THEN [s    |-> AssertImageDataSize(s, imageDesc.dataSize,
                                           imageSize * imageDesc.texelSize + 1),
              data |-> intermediateData]
        ELSE [s    |-> AssertImageDataSize(s, imageDesc.dataSize, imageDataSize),
              data |-> Data(imageDesc.data)]

\* the source of the data of a texture update, and the validation it passed or
\* failed: [s |-> call state, data |-> host data]
WriteImageData(s, compressed, imageSize, imageDesc) ==
    LET imageDataSize == GetMemoryFootprint(imageSize)
        intermediateData ==
            IF IsConvertible(compressed) THEN ConvertImageBuffer(imageDesc) ELSE NullData
    IN  IF ~intermediateData.null
        THEN [s    |-> AssertImageDataSize(s, imageDesc.dataSize,
                                           imageSize * imageDesc.texelSize),
              data |-> intermediateData]
        ELSE [s    |-> AssertImageDataSize(s, imageDesc.dataSize, imageDataSize),
              data |-> Data(imageDesc.data)]

\* WriteTexture with a fault: the staging region is not released
WriteTexture_NoRelease(s, t, textureRegion, imageDesc) ==
    LET imageSize     == textureRegion.extent
        imageDataSize == GetMemoryFootprint(imageSize)
        subresource   == {textureRegion.mip}
        Stage(src) ==
            CreateStagingBufferAndInitialize(
                src.s, [size |-> imageDataSize, usage |-> {TransferSrc}],
                src.data, imageDataSize)
    IN  FlushCommandBuffer(
            TransitionImageLayout(
                CopyBufferToImage(
                    TransitionImageLayout(
                        AllocCommandBuffer(
                            Stage(WriteImageData(s, s.textures[t].compressed,
                                                 imageSize, imageDesc))),
                        t, Undefined, TransferDstOptimal, subresource),
                    TmpHandle, t, textureRegion.offset, textureRegion.extent,
                    textureRegion.mip),
                t, TransferDstOptimal, ShaderReadOnlyOptimal, subresource))

\* WriteTexture with a fault: the staging buffer is created before the size of
\* the image data is validated
WriteTexture_ValidateAfterStaging(s, t, textureRegion, imageDesc) ==
    LET imageSize     == textureRegion.extent
        imageDataSize == GetMemoryFootprint(imageSize)
        subresource   == {textureRegion.mip}
        Initialize(src) == InitializeStagingBuffer(src.s, src.data, imageDataSize)
    IN  ReleaseMemoryRegion(
            FlushCommandBuffer(
                TransitionImageLayout(
                    CopyBufferToImage(
                        TransitionImageLayout(
                            AllocCommandBuffer(
                                Initialize(
                                    WriteImageData(
                                        CreateStagingBuffer(
                                            s, [size |-> imageDataSize,
                                                usage |-> {TransferSrc}]),
                                        s.textures[t].compressed, imageSize, imageDesc))),
                            t, Undefined, TransferDstOptimal, subresource),
                        TmpHandle, t, textureRegion.offset, textureRegion.extent,
                        textureRegion.mip),
                    t, TransferDstOptimal, ShaderReadOnlyOptimal, subresource)),
            TmpHandle)

WriteTexture(s, t, textureRegion, imageDesc) ==
    LET imageSize     == textureRegion.extent
        imageDataSize == GetMemoryFootprint(imageSize)
        subresource   == {textureRegion.mip}
        Stage(src) ==
            CreateStagingBufferAndInitialize(
                src.s, [size |-> imageDataSize, usage |-> {TransferSrc}],
                src.data, imageDataSize)
        s1  == Stage(WriteImageData(s, s.textures[t].compressed, imageSize, imageDesc))
        s2  == TransitionImageLayout(AllocCommandBuffer(s1), t,
                                     Undefined, TransferDstOptimal, subresource)
        s3  == CopyBufferToImage(s2, TmpHandle, t, textureRegion.offset,
                                 textureRegion.extent, textureRegion.mip)
        s4  == TransitionImageLayout(s3, t, TransferDstOptimal, ShaderReadOnlyOptimal,
                                     subresource)
        s5  == FlushCommandBuffer(s4)
    IN  ReleaseMemoryRegion(s5, TmpHandle)

\* the staging memory is mapped and copied out (CopyTextureImageData), if the
\* staging buffer has a region and the region can be mapped
ReadStagedImage(s, imageDataSize) == MappedRead(s, s.tmp, imageDataSize, 0)

\* ReadTexture with a fault: the staging memory is read on the host before the
\* command buffer is flushed
ReadTexture_ReadBeforeFlush(s, t, textureRegion) ==
    LET imageDataSize == GetMemoryFootprint(textureRegion.extent)
        subresource   == {textureRegion.mip}
    IN  ReleaseMemoryRegion(
            FlushCommandBuffer(
                ReadStagedImage(
                    TransitionImageLayout(
                        CopyImageToBuffer(
                            TransitionImageLayout(
                                AllocCommandBuffer(
                                    CreateStagingBuffer(
                                        s, [size |-> imageDataSize,
                                            usage |-> {TransferDst}])),
                                t, Undefined, TransferSrcOptimal, subresource),
                            t, TmpHandle, textureRegion.offset, textureRegion.extent,
                            textureRegion.mip),
                        t, TransferSrcOptimal, ShaderReadOnlyOptimal, subresource),
                    imageDataSize)),
            TmpHandle)

\* ReadTexture with a fault: the image is not transitioned back after the copy
ReadTexture_NoTransitionBack(s, t, textureRegion) ==
    LET imageDataSize == GetMemoryFootprint(textureRegion.extent)
        subresource   == {textureRegion.mip}
    IN  ReleaseMemoryRegion(
            ReadStagedImage(
                FlushCommandBuffer(
                    CopyImageToBuffer(
                        TransitionImageLayout(
                            AllocCommandBuffer(
                                CreateStagingBuffer(
                                    s, [size |-> imageDataSize, usage |-> {TransferDst}])),
                            t, Undefined, TransferSrcOptimal, subresource),
                        t, TmpHandle, textureRegion.offset, textureRegion.extent,
                        textureRegion.mip)),
                imageDataSize),
            TmpHandle)

ReadTexture(s, t, textureRegion) ==
    LET imageSize     == textureRegion.extent
        imageDataSize == GetMemoryFootprint(imageSize)
        subresource   == {textureRegion.mip}
        s1 == CreateStagingBuffer(s, [size |-> imageDataSize, usage |-> {TransferDst}])
        s2 == TransitionImageLayout(AllocCommandBuffer(s1), t,
                                    Undefined, TransferSrcOptimal, subresource)
        s3 == CopyImageToBuffer(s2, t, TmpHandle, textureRegion.offset,
                                textureRegion.extent, textureRegion.mip)
        s4 == TransitionImageLayout(s3, t, TransferSrcOptimal, ShaderReadOnlyOptimal,
                                    subresource)
        s5 == FlushCommandBuffer(s4)
        s6 == ReadStagedImage(s5, imageDataSize)
    IN  ReleaseMemoryRegion(s6, TmpHandle)

---------------------------------------------------------------------------
(* D3D11RenderSystem: textures.  A texture has arrayLayers layers of texels  *)
(* in its base MIP level.  D3D11Texture, D3D11MipGenerator and the format    *)
(* tables are not part of the sources at hand.                               *)

\* array layers of a texture
MaxLayers == 2

D3DTextureTypes ==
    {"Texture1D", "Texture2D", "Texture2DArray", "Texture2DMS", "Texture2DMSArray",
     "Texture3D"}

\* texture types that can have more than one array layer
IsArrayTexture(type) == type \in {"Texture2DArray", "Texture2DMSArray"}

D3DFormats == {"RGBA8UNorm", "D32Float"}

\* IsDepthStencilFormat(format)
IsDepthStencilFormat(format) == format = "D32Float"

\* GetFormatAttribs(format).bitSize, for texels of one byte
FormatBitSize(format) == IF format \in D3DFormats THEN 8 ELSE 0

NoD3DTexture == [live |-> FALSE, type |-> "none", format |-> "none", texels |-> 0,
                 arrayLayers |-> 0, mips |-> 0, mem |-> <<>>, mipsGenerated |-> FALSE]

\* an entry of the event log of a D3D11 call
D3DEvent(ev, t, layer, offset, size) ==
    [ev |-> ev, tex |-> t, layer |-> layer, offset |-> offset, size |-> size]

\* the call state at entry; gDev is the contents of fresh texture memory and of
\* host memory read past the end of the caller's data
StartD3D(gDev) ==
    [textures |-> d3dTextures, log |-> <<>>, err |-> NoError, out |-> <<>>,
     gDev |-> gDev]

\* MakeUnique<D3D11Texture>(device_.Get(), textureDesc): the native texture is
\* created on the device; the texture is not in the registry yet
NewD3D11Texture(d, t, textureDesc) ==
    Emit([d EXCEPT !.textures[t] =
             [live |-> FALSE, type |-> textureDesc.type, format |-> textureDesc.format,
              texels |-> textureDesc.texels, arrayLayers |-> textureDesc.arrayLayers,
              mips |-> textureDesc.mips,
              mem |-> [l \in 1..textureDesc.arrayLayers |->
                          Slice(d.gDev, 0, textureDesc.texels)],
              mipsGenerated |-> FALSE]],
         D3DEvent("CreateNativeTexture", t, 0, 0, textureDesc.texels))

\* the texel the sub-resource update reads for texel i of the box, from the
\* caller's data starting at byte imageDesc.base: the first byte of the texel
\* in the source format, or whatever lies behind the end of the data
SourceTexel(d, imageDesc, i) ==
    LET at == imageDesc.base + (i - 1) * imageDesc.texelSize + 1
    IN  IF i * imageDesc.texelSize <= imageDesc.dataSize /\ at <= Len(imageDesc.data)
        THEN imageDesc.data[at] ELSE d.gDev[1]

\* D3D11Texture::UpdateSubresource(context, mipLevel, layer, box, imageDesc): the
\* image is converted to the format of the texture and written into the box; the
\* event keeps the slice of the caller's data the descriptor names, imageDesc.data
\* as an offset from the start of the data and imageDesc.dataSize
UpdateSubresource(d, t, mipLevel, layer, box, imageDesc) ==
    IF d.err # NoError THEN d
    ELSE Emit([d EXCEPT !.textures[t].mem[layer + 1] =
                  [i \in 1..Len(@) |->
                      IF i > box.offset /\ i <= box.offset + box.extent
                      THEN SourceTexel(d, imageDesc, i - box.offset) ELSE @[i]]],
              D3DEvent("UpdateSubresource", t, layer, box.offset, box.extent)
                  @@ [src |-> imageDesc.base, srcSize |-> imageDesc.dataSize])

\* D3D11MipGenerator::Get().GenerateMips(context, texture)
D3D11GenerateMips(d, t) ==
    IF d.err # NoError THEN d
    ELSE Emit([d EXCEPT !.textures[t].mipsGenerated = TRUE],
              D3DEvent("GenerateMips", t, 0, 0, 0))

\* the box of a whole layer
WholeLayer(texels) == [offset |-> 0, extent |-> texels]

RECURSIVE UpdateLayersWithImage(_, _, _, _, _, _, _)

\* for_range(layer, arrayLayers): update the sub-resource of the layer, then move
\* the data pointer to the next region of the initial data
UpdateLayersWithImage(d, t, texels, arrayLayers, imageDesc, bytesPerLayer, layer) ==
    IF layer >= arrayLayers THEN d
    ELSE UpdateLayersWithImage(
             UpdateSubresource(d, t, 0, layer, WholeLayer(texels), imageDesc),
             t, texels, arrayLayers,
             [imageDesc EXCEPT !.base = @ + bytesPerLayer], bytesPerLayer, layer + 1)

InitializeGpuTextureWithImage(d, t, texels, arrayLayers, imageDesc) ==
    LET bytesPerLayer == texels * imageDesc.texelSize
    IN  IF d.err # NoError THEN d
        ELSE IF imageDesc.dataSize % arrayLayers # 0
        THEN Throw(d, "InvalidArgument")
        ELSE UpdateLayersWithImage(
                 d, t, texels, arrayLayers,
                 [imageDesc EXCEPT !.dataSize = @ \div arrayLayers],
                 bytesPerLayer, 0)

RECURSIVE UpdateLayersWithDefault(_, _, _, _, _, _)

\* for_range(layer, arrayLayers): every layer is updated from the same image
UpdateLayersWithDefault(d, t, texels, arrayLayers, imageDescDefault, layer) ==
    IF layer >= arrayLayers THEN d
    ELSE UpdateLayersWithDefault(
             UpdateSubresource(d, t, 0, layer, WholeLayer(texels), imageDescDefault),
             t, texels, arrayLayers, imageDescDefault, layer + 1)

\* InitializeGpuTextureWithClearValue without the depth/stencil branch: every
\* format is filled with the clear value
InitializeGpuTextureWithClearValue_AnyFormat(d, t, format, texels, arrayLayers, clearValue) ==
    IF d.err # NoError THEN d
    ELSE IF FormatBitSize(format) > 0
    THEN UpdateLayersWithDefault(
             d, t, texels, arrayLayers,
             [present |-> TRUE, data |-> GenerateImageBuffer(texels, clearValue).bytes,
              dataSize |-> GetMemoryFootprint(texels), texelSize |-> 1, base |-> 0],
             0)
    ELSE d

InitializeGpuTextureWithClearValue(d, t, format, texels, arrayLayers, clearValue) ==
    IF d.err # NoError THEN d
    ELSE IF IsDepthStencilFormat(format) THEN d
    ELSE IF FormatBitSize(format) > 0
    THEN UpdateLayersWithDefault(
             d, t, texels, arrayLayers,
             [present |-> TRUE, data |-> GenerateImageBuffer(texels, clearValue).bytes,
              dataSize |-> GetMemoryFootprint(texels), texelSize |-> 1, base |-> 0],
             0)
    ELSE d

InitializeGpuTexture(d, t, textureDesc, imageDesc) ==
    IF imageDesc.present
    THEN InitializeGpuTextureWithImage(d, t, textureDesc.texels, textureDesc.arrayLayers,
                                       imageDesc)
    ELSE IF ~textureDesc.noInitialData
    THEN InitializeGpuTextureWithClearValue(d, t, textureDesc.format, textureDesc.texels,
                                            textureDesc.arrayLayers,
                                            textureDesc.clearValue)
    ELSE d

\* TakeOwnership(textures_, std::move(texture)); when the call has thrown, the
\* texture object is destroyed with the call
TakeOwnershipD3D(d, t) ==
    IF d.err # NoError THEN [d EXCEPT !.textures[t] = NoD3DTexture]
    ELSE [d EXCEPT !.textures[t].live = TRUE]

D3D11CreateTexture(d, t, textureDesc, imageDesc) ==
    LET GenerateMipsIfEnabled(x) ==
            IF imageDesc.present /\ MustGenerateMipsOnCreate(textureDesc)
            THEN D3D11GenerateMips(x, t) ELSE x
    IN  TakeOwnershipD3D(
            GenerateMipsIfEnabled(
                InitializeGpuTexture(NewD3D11Texture(d, t, textureDesc), t,
                                     textureDesc, imageDesc)),
            t)

\* RemoveFromUniqueSet(textures_, &texture)
D3D11ReleaseTexture(d, t) == [d EXCEPT !.textures[t] = NoD3DTexture]

D3D11WriteTexture(d, t, textureRegion, imageDesc) ==
    LET type == d.textures[t].type
        box  == [offset |-> textureRegion.offset, extent |-> textureRegion.extent]
    IN  IF type \in {"Texture1D", "Texture1DArray"}
        THEN UpdateSubresource(d, t, textureRegion.mip, textureRegion.layer, box, imageDesc)
        ELSE IF type \in {"Texture2D", "TextureCube", "Texture2DArray", "TextureCubeArray"}
        THEN UpdateSubresource(d, t, textureRegion.mip, textureRegion.layer, box, imageDesc)
        ELSE IF type \in {"Texture2DMS", "Texture2DMSArray"}
        THEN d
        ELSE UpdateSubresource(d, t, textureRegion.mip, 0, box, imageDesc)

\* D3D11Texture::CreateSubresourceCopyWithCPUAccess, Map, CopyTextureImageData,
\* Unmap: the texels of the region are copied out through a readable copy
D3D11ReadTexture(d, t, textureRegion) ==
    LET region == D3DEvent("", t, textureRegion.layer, textureRegion.offset,
                           textureRegion.extent)
    IN  Emit(Emit([Emit(Emit(d, [region EXCEPT !.ev = "CopySubresource"]),
                        [region EXCEPT !.ev = "Map"])
                       EXCEPT !.out = Slice(d.textures[t].mem[textureRegion.layer + 1],
                                            textureRegion.offset, textureRegion.extent)],
                  [region EXCEPT !.ev = "HostRead"]),
             [region EXCEPT !.ev = "Unmap"])

---------------------------------------------------------------------------
(* The system: what a call leaves behind *)

NoWrite == [op |-> "none", buf |-> 0, offset |-> 0, mip |-> 0, data |-> <<>>]

\* no descriptor among the arguments of a call
NoDesc == [none |-> TRUE]

NoCall == [op |-> "none", id |-> 0, layer |-> 0, offset |-> 0, size |-> 0, mip |-> 0,
           data |-> NullData, retained |-> FALSE, desc |-> NoDesc,
           err |-> NoError, out |-> <<>>, log |-> <<>>, before |-> {}]

\* the record of a call that ended in call state s: the resource, the range,
\* the host data and the descriptors passed, whether the buffer had a retained
\* staging buffer at entry, the error thrown, the data returned, the events in
\* order, and the regions leased at entry
Call(op, id, offset, size, mip, data, retained, desc, s) ==
    [op |-> op, id |-> id, layer |-> 0, offset |-> offset, size |-> size, mip |-> mip,
     data |-> data, retained |-> retained, desc |-> desc,
     err |-> s.err, out |-> s.out, log |-> s.log, before |-> Leased(chunks)]

\* the objects of the call state become the state of the system
Commit(s) ==
    /\ chunks' = s.chunks
    /\ buffers' = s.buffers
    /\ textures' = s.textures

\* buffers the application holds a pointer to: created by a call that returned
Known(b) == buffers[b].live /\ buffers[b].region # NoRegion

\* outcomes of the k device allocations of a call: all succeed, or (while the
\* device may still fail) the f-th fails
DevOkSeqs(k) ==
    {[i \in 1..k |-> TRUE]}
        \union (IF failures < MaxFailures THEN {[i \in 1..k |-> i < f] : f \in 1..k} ELSE {})

\* n bytes of the same value
Fill(n, v) == [i \in 1..n |-> v]

\* what the device decides during a call that touches no image
BufferEnv(devOk, ubSkip, gHost) ==
    [devOk |-> devOk, ubSkip |-> ubSkip, discard |-> FALSE, gHost |-> gHost,
     gDev |-> Fill(MaxBufferSize, 0)]

\* what the device decides during a call on a texture
TextureEnv(devOk, discard, gHost, gDev) ==
    [devOk |-> devOk, ubSkip |-> FALSE, discard |-> discard, gHost |-> gHost,
     gDev |-> gDev]

\* whether the device drops the copies of a call on a texture of the given type
DropsCopy(type) == IF IsMultiSampleTexture(type) THEN BOOLEAN ELSE {FALSE}

BufferDescs ==
    [size : 1..MaxBufferSize, cpuAccessFlags : SUBSET {CPURead, CPUWrite},
     dynamicUsage : BOOLEAN]

NoFlight == [op |-> "none"]

Init ==
    /\ chunks = <<>>
    /\ buffers = [b \in BufferIds |-> NoBuffer]
    /\ textures = [t \in TextureIds |-> NoTexture]
    /\ failures = 0
    /\ lastCall = NoCall
    /\ lastWrite = NoWrite
    /\ d3dTextures = [t \in TextureIds |-> NoD3DTexture]
    /\ inFlight = NoFlight

\* the state after construction, with room for two buffers
InitTwoBuffers ==
    /\ chunks = <<>>
    /\ buffers = [b \in {1, 2} |-> NoBuffer]
    /\ textures = [t \in TextureIds |-> NoTexture]
    /\ failures = 0
    /\ lastCall = NoCall
    /\ lastWrite = NoWrite
    /\ d3dTextures = [t \in TextureIds |-> NoD3DTexture]
    /\ inFlight = NoFlight

\* the call that ended in call state s has returned
Outcome(op, id, offset, size, mip, data, retained, desc, s) ==
    /\ Commit(s)
    /\ failures' = IF s.err = "OutOfMemory" THEN failures + 1 ELSE failures
    /\ lastCall' = Call(op, id, offset, size, mip, data, retained, desc, s)
    /\ lastWrite' = IF op \in {"WriteBuffer", "WriteTexture"}
                    THEN IF s.err = NoError
                         THEN [op |-> op, buf |-> id, offset |-> offset, mip |-> mip,
                               data |-> data.bytes]
                         ELSE NoWrite
                    ELSE IF op = "ReadBuffer" /\ lastWrite.op = "WriteBuffer"
                    THEN lastWrite
                    ELSE IF op = "ReadTexture" /\ lastWrite.op = "WriteTexture"
                    THEN lastWrite
                    ELSE NoWrite
    /\ UNCHANGED d3dTextures

\* the call returns (or throws) without having waited for the device
Returned(op, id, offset, size, mip, data, retained, desc, s) ==
    /\ Outcome(op, id, offset, size, mip, data, retained, desc, s)
    /\ UNCHANGED inFlight

\* the number of command buffers the call has flushed
Flushes(log) == Cardinality({i \in 1..Len(log) : log[i].ev = "Flush"})

\* the call with a fault: it returns at once, without waiting for the device
Submitted_NoWait(op, id, offset, size, mip, data, retained, desc, s) ==
    /\ inFlight = NoFlight
    /\ Returned(op, id, offset, size, mip, data, retained, desc, s)

\* the call as the device sees it: a call that flushes no command buffer
\* returns (or throws) at once; a call that flushes has submitted its command
\* buffer and waits until the queue is idle, and nothing else runs meanwhile
Submitted(op, id, offset, size, mip, data, retained, desc, s) ==
    /\ inFlight = NoFlight
    /\ IF Flushes(s.log) = 0
       THEN Returned(op, id, offset, size, mip, data, retained, desc, s)
       ELSE /\ inFlight' = [op |-> op, id |-> id, offset |-> offset, size |-> size,
                            mip |-> mip, data |-> data, retained |-> retained,
                            desc |-> desc, s |-> s]
            /\ UNCHANGED <<chunks, buffers, textures, failures, lastCall, lastWrite,
                           d3dTextures>>

\* the device completes the command buffer the call waits for: the call goes
\* on to its return (no call flushes more than once)
CompleteFlush ==
    /\ inFlight # NoFlight
    /\ Outcome(inFlight.op, inFlight.id, inFlight.offset, inFlight.size,
               inFlight.mip, inFlight.data, inFlight.retained, inFlight.desc,
               inFlight.s)
    /\ inFlight' = NoFlight

\* the end of a call: it returns at once where the flush is taken as one step
\* with the call, and waits for the device where the device completes the
\* command buffer in a step of its own
Ended(waits, op, id, offset, size, mip, data, retained, desc, s) ==
    IF waits
    THEN Submitted(op, id, offset, size, mip, data, retained, desc, s)
    ELSE Returned(op, id, offset, size, mip, data, retained, desc, s)

\* CreateBuffer(bufferDesc, initialData), the inputs drawn from D
DoCreateBufferVia(D, waits) ==
    \E b \in DOMAIN buffers, desc \in BufferDescs, devOk \in DevOkSeqs(2) :
        \E initialData \in {NullData} \union {Data(d) : d \in ByteSeqs(D.bytes, desc.size)} :
        \E gHost \in IF initialData.null THEN ByteSeqs(D.bytes, desc.size)
                     ELSE {Fill(desc.size, 0)} :
            /\ lastCall = NoCall
            /\ ~buffers[b].live
            /\ LET s == CreateBuffer(Start(BufferEnv(devOk, FALSE, gHost)),
                                     b, desc, initialData)
               IN  Ended(waits, "CreateBuffer", b, 0, desc.size, 0, initialData, FALSE, desc, s)

DoCreateBuffer(D) == DoCreateBufferVia(D, FALSE)

DoReleaseBuffer ==
    \E b \in DOMAIN buffers :
        /\ lastCall = NoCall
        /\ Known(b)
        /\ LET s == ReleaseBuffer(Start(BufferEnv(<<>>, FALSE, <<>>)), b)
           IN  Returned("ReleaseBuffer", b, 0, 0, 0, NullData,
                        buffers[b].staging.valid, NoDesc, s)

\* WriteBuffer(buffer, offset, data, dataSize), the range within the buffer
DoWriteBufferVia(D, waits) ==
    \E b \in DOMAIN buffers :
        /\ lastCall = NoCall
        /\ Known(b)
        /\ \E offset \in 0..(buffers[b].size - 1) :
           \E n \in 1..(buffers[b].size - offset) :
           \E data \in ByteSeqs(D.bytes, n),
              devOk \in IF buffers[b].staging.valid THEN {<<>>} ELSE DevOkSeqs(1),
              gHost \in IF buffers[b].staging.valid THEN {<<>>} ELSE ByteSeqs(D.bytes, n) :
               LET s == WriteBuffer(Start(BufferEnv(devOk, FALSE, gHost)), b, offset, data, n)
               IN  Ended(waits, "WriteBuffer", b, offset, n, 0, Data(data),
                                       buffers[b].staging.valid, NoDesc, s)

DoWriteBuffer(D) == DoWriteBufferVia(D, FALSE)

\* ReadBuffer(buffer, offset, data, dataSize), the range within the buffer.  A
\* copy into a staging buffer created without TRANSFER_DST usage is invalid
\* usage: the device performs it or drops it.
DoReadBufferVia(D, waits) ==
    \E b \in DOMAIN buffers :
        /\ lastCall = NoCall
        /\ Known(b)
        /\ \E offset \in 0..(buffers[b].size - 1) :
           \E n \in 1..(buffers[b].size - offset) :
           \E devOk \in IF buffers[b].staging.valid THEN {<<>>} ELSE DevOkSeqs(1),
              ubSkip \in IF buffers[b].staging.valid
                            /\ TransferDst \notin buffers[b].staging.usage
                         THEN BOOLEAN ELSE {FALSE},
              gHost \in IF buffers[b].staging.valid THEN {<<>>} ELSE ByteSeqs(D.bytes, n) :
               LET s == ReadBuffer(Start(BufferEnv(devOk, ubSkip, gHost)), b, offset, n)
               IN  Ended(waits, "ReadBuffer", b, offset, n, 0, NullData,
                                       buffers[b].staging.valid, NoDesc, s)

DoReadBuffer(D) == DoReadBufferVia(D, FALSE)

\* a source image of two bytes per texel whose first components are d
Widen(d) == [i \in 1..(2 * Len(d)) |-> IF i % 2 = 1 THEN d[(i + 1) \div 2] ELSE 0]

SrcImageDesc(data, texelSize) ==
    [present |-> TRUE, data |-> data, dataSize |-> Len(data), texelSize |-> texelSize]

\* source images for n texels: of the native format or of two bytes per texel,
\* with every content when the data has the required size, and too short or
\* longer than required
SrcImageDescs(D, n) ==
    {i \in {SrcImageDesc(d, 1) : d \in ByteSeqs(D.bytes, n)}
        \union {SrcImageDesc(Fill(n - 1, 0), 1)}
        \union {SrcImageDesc(d \o <<0>>, 1) : d \in ByteSeqs(D.bytes, n)}
        \union {SrcImageDesc(Widen(d), 2) : d \in ByteSeqs(D.bytes, n)}
        \union {SrcImageDesc(Fill(2 * n - 1, 0), 2), SrcImageDesc(Fill(2 * n - 2, 0), 2)} :
     i.texelSize \in D.texelSizes}

\* the ways to initialise a new texture.  MiscFlags::NoInitialData and the clear
\* value are read only when no image descriptor is given.
InitChoices(D, n) ==
    {[imageDesc |-> i, noInitialData |-> FALSE, clearValue |-> 0] : i \in SrcImageDescs(D, n)}
        \union {[imageDesc |-> NoImageDesc, noInitialData |-> TRUE, clearValue |-> 0]}
        \union {[imageDesc |-> NoImageDesc, noInitialData |-> FALSE, clearValue |-> c] :
                    c \in D.bytes}

\* CreateTexture(textureDesc, imageDesc).  Fresh staging memory is read only
\* when no initial data fills it; fresh image memory stays in the levels below
\* the base level.
DoCreateTextureVia(D, waits) ==
    \E t \in TextureIds, texels \in 1..MaxTexels, mips \in MipCounts,
       compressed \in D.compressed, devOk \in DevOkSeqs(2), type \in D.types :
        \E init \in InitChoices(D, texels),
           generateMips \in IF mips > 1 THEN BOOLEAN ELSE {FALSE},
           gDev \in IF mips > 1 THEN {Fill(texels, v) : v \in D.bytes} ELSE {Fill(texels, 0)} :
            \E gHost \in IF ~init.imageDesc.present /\ (init.noInitialData \/ compressed)
                         THEN ByteSeqs(D.bytes, texels) ELSE {Fill(texels, 0)},
               ubSkip \in DropsCopy(type) :
                /\ lastCall = NoCall
                /\ ~textures[t].live
                /\ LET desc == [type |-> type,
                                texels |-> texels, mips |-> mips, compressed |-> compressed,
                                noInitialData |-> init.noInitialData,
                                generateMips |-> generateMips,
                                clearValue |-> init.clearValue]
                       s == CreateTexture(
                                Start([TextureEnv(devOk, FALSE, gHost, gDev)
                                           EXCEPT !.ubSkip = ubSkip]),
                                t, desc, init.imageDesc)
                   IN  Ended(waits, "CreateTexture", t, 0, texels, 0,
                                           Data(init.imageDesc.data), FALSE,
                                           [texture |-> desc, image |-> init.imageDesc], s)

DoCreateTexture(D) == DoCreateTextureVia(D, FALSE)

DoReleaseTexture ==
    \E t \in TextureIds :
        /\ lastCall = NoCall
        /\ textures[t].live
        /\ LET s == ReleaseTexture(Start(TextureEnv(<<>>, FALSE, <<>>, <<>>)), t)
           IN  Returned("ReleaseTexture", t, 0, 0, 0, NullData, FALSE, NoDesc, s)

\* whether a transition declared from the undefined layout discards the
\* contents; with a single byte value the contents cannot change
Discards(B) == IF Cardinality(B) > 1 THEN BOOLEAN ELSE {FALSE}

\* the regions of a MIP level of n texels
TextureRegions(n) ==
    {[offset |-> x, extent |-> w] : x \in 0..(n - 1), w \in 1..n}

\* WriteTexture(texture, textureRegion, imageDesc), the region within the level
DoWriteTextureVia(D, waits) ==
    \E t \in TextureIds :
        /\ lastCall = NoCall
        /\ textures[t].live
        /\ \E mip \in 0..(textures[t].mips - 1), devOk \in DevOkSeqs(1) :
           \E r \in TextureRegions(MipSize(textures[t].texels, mip)) :
           \E imageDesc \in SrcImageDescs(D, r.extent), discard \in Discards(D.bytes),
              ubSkip \in DropsCopy(textures[t].type) :
           \E gDev \in IF discard THEN {Fill(textures[t].texels, v) : v \in D.bytes}
                       ELSE {Fill(textures[t].texels, 0)} :
               /\ r.offset + r.extent <= MipSize(textures[t].texels, mip)
               /\ LET region == [offset |-> r.offset, extent |-> r.extent, mip |-> mip]
                      s == WriteTexture(
                               Start([TextureEnv(devOk, discard, Fill(r.extent, 0), gDev)
                                          EXCEPT !.ubSkip = ubSkip]),
                               t, region, imageDesc)
                  IN  Ended(waits, "WriteTexture", t, r.offset, r.extent, mip,
                                          Data(imageDesc.data), FALSE, [image |-> imageDesc], s)

DoWriteTexture(D) == DoWriteTextureVia(D, FALSE)

\* ReadTexture(texture, textureRegion, imageDesc), the region within the level
DoReadTextureVia(D, waits) ==
    \E t \in TextureIds :
        /\ lastCall = NoCall
        /\ textures[t].live
        /\ \E mip \in 0..(textures[t].mips - 1), devOk \in DevOkSeqs(1) :
           \E r \in TextureRegions(MipSize(textures[t].texels, mip)) :
           \E discard \in Discards(D.bytes), ubSkip \in DropsCopy(textures[t].type) :
           \E gDev \in IF discard THEN {Fill(textures[t].texels, v) : v \in D.bytes}
                       ELSE {Fill(textures[t].texels, 0)} :
               /\ r.offset + r.extent <= MipSize(textures[t].texels, mip)
               /\ LET region == [offset |-> r.offset, extent |-> r.extent, mip |-> mip]
                      s == ReadTexture(
                               Start([TextureEnv(devOk, discard, Fill(r.extent, 0), gDev)
                                          EXCEPT !.ubSkip = ubSkip]),
                               t, region)
                  IN  Ended(waits, "ReadTexture", t, r.offset, r.extent, mip,
                                          NullData, FALSE, NoDesc, s)

DoReadTexture(D) == DoReadTextureVia(D, FALSE)

\* the D3D11 call that ended in call state d has returned
ReturnedD3D(op, id, layer, offset, size, data, desc, d) ==
    /\ d3dTextures' = d.textures
    /\ lastCall' = [Call(op, id, offset, size, 0, data, FALSE, desc, d)
                       EXCEPT !.layer = layer]
    /\ UNCHANGED <<chunks, buffers, textures, failures, lastWrite, inFlight>>

\* a source image as the D3D11 functions take it: the data pointer at its start
D3DSrcImageDesc(i) ==
    [present |-> i.present, data |-> i.data, dataSize |-> i.dataSize,
     texelSize |-> i.texelSize, base |-> 0]

\* D3D11RenderSystem::CreateTexture(textureDesc, imageDesc); only array textures
\* have more than one layer
DoD3D11CreateTexture(D) ==
    \E t \in TextureIds, type \in D3DTextureTypes, format \in D3DFormats,
       texels \in 1..MaxTexels, mips \in MipCounts :
        \E arrayLayers \in IF IsArrayTexture(type) THEN 1..MaxLayers ELSE {1},
           generateMips \in IF mips > 1 THEN BOOLEAN ELSE {FALSE},
           gDev \in {Fill(MaxTexels, v) : v \in D.bytes} :
            \E init \in InitChoices(D, texels * arrayLayers) :
                /\ lastCall = NoCall
                /\ ~d3dTextures[t].live
                /\ LET desc == [type |-> type, format |-> format, texels |-> texels,
                                arrayLayers |-> arrayLayers, mips |-> mips,
                                generateMips |-> generateMips,
                                noInitialData |-> init.noInitialData,
                                clearValue |-> init.clearValue]
                       d == D3D11CreateTexture(StartD3D(gDev), t, desc,
                                               D3DSrcImageDesc(init.imageDesc))
                   IN  ReturnedD3D("D3D11CreateTexture", t, 0, 0, texels,
                                   Data(init.imageDesc.data),
                                   [texture |-> desc, image |-> init.imageDesc], d)

DoD3D11ReleaseTexture ==
    \E t \in TextureIds :
        /\ lastCall = NoCall
        /\ d3dTextures[t].live
        /\ LET d == D3D11ReleaseTexture(StartD3D(<<>>), t)
           IN  ReturnedD3D("D3D11ReleaseTexture", t, 0, 0, 0, NullData, NoDesc, d)

\* D3D11RenderSystem::WriteTexture(texture, textureRegion, imageDesc), the region
\* within a layer of the base MIP level
DoD3D11WriteTexture(D) ==
    \E t \in TextureIds :
        /\ lastCall = NoCall
        /\ d3dTextures[t].live
        /\ \E layer \in 0..(d3dTextures[t].arrayLayers - 1),
              r \in TextureRegions(d3dTextures[t].texels),
              gDev \in {Fill(MaxTexels, v) : v \in D.bytes} :
           \E imageDesc \in SrcImageDescs(D, r.extent) :
               /\ r.offset + r.extent <= d3dTextures[t].texels
               /\ LET region == [offset |-> r.offset, extent |-> r.extent, mip |-> 0,
                                 layer |-> layer]
                      d == D3D11WriteTexture(StartD3D(gDev), t, region,
                                             D3DSrcImageDesc(imageDesc))
                  IN  ReturnedD3D("D3D11WriteTexture", t, layer, r.offset, r.extent,
                                  Data(imageDesc.data), [image |-> imageDesc], d)

\* D3D11RenderSystem::ReadTexture(texture, textureRegion, imageDesc)
DoD3D11ReadTexture ==
    \E t \in TextureIds :
        /\ lastCall = NoCall
        /\ d3dTextures[t].live
        /\ \E layer \in 0..(d3dTextures[t].arrayLayers - 1),
              r \in TextureRegions(d3dTextures[t].texels) :
               /\ r.offset + r.extent <= d3dTextures[t].texels
               /\ LET region == [offset |-> r.offset, extent |-> r.extent, mip |-> 0,
                                 layer |-> layer]
                      d == D3D11ReadTexture(StartD3D(<<>>), t, region)
                  IN  ReturnedD3D("D3D11ReadTexture", t, layer, r.offset, r.extent,
                                  NullData, NoDesc, d)

---------------------------------------------------------------------------
(* The device memory manager on its own: a client that allocates and       *)
(* releases regions directly, with requests of every size, alignment and   *)
(* set of acceptable memory types.                                         *)

\* chunks and leased regions of the manager when it is driven directly
MaxChunks == 2
MaxLeases == 2

\* sizes of the requests: small ones, and one byte more than the minimum
\* allocation size
RequestSizes == {1, 2, MinAllocationSize + 1}

\* VkMemoryRequirements::alignment
Alignments == {1, 2}

\* VkMemoryRequirements::memoryTypeBits and the desired property flags
RequestKinds ==
    {[memoryTypeBits |-> {1, 2}, flags |-> f] :
        f \in {{}, {DeviceLocal}, {HostVisible, HostCoherent}}}
        \union {[memoryTypeBits |-> {2}, flags |-> {DeviceLocal}]}

\* outcomes of the device allocations of one Allocate, one for each of the k
\* memory types it may try
ManagerDevOkSeqs(k) ==
    IF failures < MaxFailures THEN [1..k -> BOOLEAN] ELSE {[i \in 1..k |-> TRUE]}

\* every region of a chunk, leased or not
RegionsOf(cs, c) ==
    {[chunk |-> c, offset |-> o, size |-> n] :
        o \in 0..(cs[c].size - 1), n \in RequestSizes}

\* the region lies in a free span of its chunk
IsFree(cs, r) ==
    \E i \in 1..Len(cs[r.chunk].free) :
        /\ cs[r.chunk].free[i].offset <= r.offset
        /\ r.offset + r.size <= SpanEnd(cs[r.chunk].free[i])

\* the regions a client may hand to Release: the leased ones, and regions that
\* are not leased any more
Releasable(cs) ==
    Leased(cs) \union UNION {{r \in RegionsOf(cs, c) : IsFree(cs, r)} : c \in 1..Len(cs)}

\* VKDeviceMemoryManager::Allocate(requirements, desiredMemoryTypeFlags)
DoAllocate ==
    \E size \in RequestSizes, alignment \in Alignments, kind \in RequestKinds :
    \E devOk \in ManagerDevOkSeqs(
                     Cardinality(AcceptableTypes(kind.memoryTypeBits, kind.flags))) :
        /\ lastCall = NoCall
        /\ Cardinality(Leased(chunks)) < MaxLeases
        /\ AcceptableTypes(kind.memoryTypeBits, kind.flags) = {} => failures < MaxFailures
        /\ LET requirements == [size |-> size, alignment |-> alignment,
                                memoryTypeBits |-> kind.memoryTypeBits]
               s == Allocate(Start(BufferEnv(devOk, FALSE, <<>>)), requirements, kind.flags)
           IN  /\ Len(s.chunks) <= MaxChunks
               /\ Returned("Allocate", 0, 0, size, 0, NullData, FALSE,
                           [requirements |-> requirements, flags |-> kind.flags,
                            devOk |-> devOk], s)

\* VKDeviceMemoryManager::Release(region)
DoRelease ==
    \E r \in Releasable(chunks) :
        /\ lastCall = NoCall
        /\ LET s == Release(Start(BufferEnv(<<>>, FALSE, <<>>)), r)
           IN  Returned("Release", 0, r.offset, r.size, 0, NullData, FALSE,
                        [region |-> r], s)

\* device_.ReadBuffer(deviceBuffer, data, size, 0) on a device buffer of a
\* buffer object: the primary one, in device-local memory, or the retained
\* staging buffer
DoHostRead ==
    \E b \in DOMAIN buffers :
    \E h \in {BufHandle(b), StgHandle(b)} :
        /\ lastCall = NoCall
        /\ Known(b)
        /\ h.kind = "stg" => buffers[b].staging.valid
        /\ LET s == DeviceReadBuffer(Start(BufferEnv(<<>>, FALSE, <<>>)), h,
                                     buffers[b].size, 0)
           IN  Returned("HostRead", b, 0, buffers[b].size, 0, NullData,
                        buffers[b].staging.valid,
                        [region |-> IF h.kind = "stg" THEN buffers[b].staging.region
                                    ELSE buffers[b].region], s)

\* The construction of the render system

\* the largest minimum allocation size a renderer configuration is drawn with
MaxConfiguredSize == 64

\* rendererConfigVK: a null pointer, or a RendererConfigurationVulkan
NullConfig == [null |-> TRUE]
RendererConfigurationVulkan(size, reduce) ==
    [null |-> FALSE, minDeviceMemoryAllocationSize |-> size,
     reduceDeviceMemoryFragmentation |-> reduce]

RendererConfigs ==
    {NullConfig}
        \union {RendererConfigurationVulkan(n, r) :
                    n \in (0..MaxConfiguredSize) \union {1024 * 1024, 2 * 1024 * 1024},
                    r \in BOOLEAN}

\* the constructor with a fault: the fragmentation toggle of the configuration
\* is not passed on
MakeDeviceMemoryManager_ToggleDropped(rendererConfigVK) ==
    [minAllocationSize |-> IF ~rendererConfigVK.null
                           THEN rendererConfigVK.minDeviceMemoryAllocationSize
                           ELSE 1024 * 1024,
     reduceFragmentation |-> FALSE]

\* MakeUnique<VKDeviceMemoryManager>(device_, memoryProperties,
\* minAllocationSize, reduceFragmentation): the two arguments the constructor
\* of the render system takes from the configuration
MakeDeviceMemoryManager(rendererConfigVK) ==
    [minAllocationSize |-> IF ~rendererConfigVK.null
                           THEN rendererConfigVK.minDeviceMemoryAllocationSize
                           ELSE 1024 * 1024,
     reduceFragmentation |-> IF ~rendererConfigVK.null
                             THEN rendererConfigVK.reduceDeviceMemoryFragmentation
                             ELSE FALSE]

\* VKRenderSystem(renderSystemDesc), as far as the device memory manager goes
DoCreateRenderSystem ==
    \E rendererConfigVK \in RendererConfigs :
        /\ lastCall = NoCall
        /\ Returned("VKRenderSystem", 0, 0, 0, 0, NullData, FALSE,
                    [rendererConfigVK |-> rendererConfigVK],
                    [Start(BufferEnv(<<>>, FALSE, <<>>)) EXCEPT
                        !.out = MakeDeviceMemoryManager(rendererConfigVK)])

\* The sample descriptors of the Direct3D 11 render system

\* the largest sample count asked for
MaxSampleCount == 3

DXGI_FORMAT_UNKNOWN == "UNKNOWN"
DXGIFormats == {DXGI_FORMAT_UNKNOWN, "R8G8B8A8_UNORM", "D24_UNORM_S8_UINT"}

\* the lists of numFormats formats, numFormats <= 2
DXGIFormatLists == {<<>>} \union [1..1 -> DXGIFormats] \union [1..2 -> DXGIFormats]

\* what ID3D11Device::CheckMultisampleQualityLevels answers for a format and a
\* sample count: the result code and the number of quality levels
QualityAnswers ==
    {[hr |-> "E_FAIL", numQualityLevels |-> 0]}
        \union {[hr |-> "S_OK", numQualityLevels |-> n] : n \in 0..2}

\* the devices: an answer for every format and every sample count above 1
D3D11Devices ==
    [DXGIFormats \ {DXGI_FORMAT_UNKNOWN} -> [2..MaxSampleCount -> QualityAnswers]]

CheckMultisampleQualityLevels(device, format, sampleCount) ==
    device[format][sampleCount]

\* FindSuitableSampleDesc with a fault: only maxSampleCount itself is tried
FindSuitableSampleDesc_OneTry(device, format, maxSampleCount) ==
    IF /\ maxSampleCount > 1
       /\ CheckMultisampleQualityLevels(device, format, maxSampleCount).hr = "S_OK"
       /\ CheckMultisampleQualityLevels(device, format, maxSampleCount).numQualityLevels > 0
    THEN [Count |-> maxSampleCount,
          Quality |-> CheckMultisampleQualityLevels(device, format, maxSampleCount).numQualityLevels - 1]
    ELSE [Count |-> 1, Quality |-> 0]

\* FindSuitableSampleDesc(device, format, maxSampleCount): the largest sample
\* count from maxSampleCount down to 2 the format has quality levels for, with
\* its highest quality level, or {1, 0}
RECURSIVE FindSuitableSampleDesc(_, _, _)
FindSuitableSampleDesc(device, format, maxSampleCount) ==
    IF maxSampleCount > 1
    THEN IF /\ CheckMultisampleQualityLevels(device, format, maxSampleCount).hr = "S_OK"
            /\ CheckMultisampleQualityLevels(device, format, maxSampleCount).numQualityLevels > 0
         THEN [Count |-> maxSampleCount,
               Quality |-> CheckMultisampleQualityLevels(device, format, maxSampleCount).numQualityLevels - 1]
         ELSE FindSuitableSampleDesc(device, format, maxSampleCount - 1)
    ELSE [Count |-> 1, Quality |-> 0]

\* the loop over the formats from index i on, sampleDesc being the descriptor
\* found so far
RECURSIVE FindSuitableSampleDescFrom(_, _, _, _)
FindSuitableSampleDescFrom(device, formats, i, sampleDesc) ==
    IF i > Len(formats) THEN sampleDesc
    ELSE FindSuitableSampleDescFrom(device, formats, i + 1,
             IF formats[i] # DXGI_FORMAT_UNKNOWN
             THEN FindSuitableSampleDesc(device, formats[i], sampleDesc.Count)
             ELSE sampleDesc)

\* FindSuitableSampleDesc(device, numFormats, formats, maxSampleCount)
FindSuitableSampleDescOfFormats(device, formats, maxSampleCount) ==
    FindSuitableSampleDescFrom(device, formats, 1,
                               [Count |-> maxSampleCount, Quality |-> 0])

\* the sample counts the loop of FindSuitableSampleDesc asks the device about,
\* in order: from maxSampleCount down, as long as the count is above 1 and no
\* count has been found
RECURSIVE SampleCountsTried(_, _, _)
SampleCountsTried(device, format, maxSampleCount) ==
    IF maxSampleCount > 1
    THEN IF /\ CheckMultisampleQualityLevels(device, format, maxSampleCount).hr = "S_OK"
            /\ CheckMultisampleQualityLevels(device, format, maxSampleCount).numQualityLevels > 0
         THEN <<maxSampleCount>>
         ELSE <<maxSampleCount>> \o SampleCountsTried(device, format, maxSampleCount - 1)
    ELSE <<>>

\* a call of FindSuitableSampleDesc with one format
DoFindSuitableSampleDescOfFormat ==
    \E device \in D3D11Devices, format \in DXGIFormats \ {DXGI_FORMAT_UNKNOWN},
       maxSampleCount \in 0..MaxSampleCount :
        /\ lastCall = NoCall
        /\ ReturnedD3D("FindSuitableSampleDescOfFormat", 0, 0, 0, 0, NullData,
                       [device |-> device, format |-> format,
                        maxSampleCount |-> maxSampleCount,
                        tried |-> SampleCountsTried(device, format, maxSampleCount)],
                       [StartD3D(<<>>) EXCEPT
                           !.out = FindSuitableSampleDesc(device, format, maxSampleCount)])

\* a call of FindSuitableSampleDesc with a list of formats
DoFindSuitableSampleDesc ==
    \E device \in D3D11Devices, formats \in DXGIFormatLists,
       maxSampleCount \in 0..MaxSampleCount :
        /\ lastCall = NoCall
        /\ ReturnedD3D("FindSuitableSampleDesc", 0, 0, 0, 0, NullData,
                       [device |-> device, formats |-> formats,
                        maxSampleCount |-> maxSampleCount],
                       [StartD3D(<<>>) EXCEPT
                           !.out = FindSuitableSampleDescOfFormats(device, formats,
                                                                   maxSampleCount)])

\* the driver types CreateDeviceWithFlags goes through, in its order
DriverTypes ==
    <<"D3D_DRIVER_TYPE_HARDWARE", "D3D_DRIVER_TYPE_WARP", "D3D_DRIVER_TYPE_SOFTWARE">>

D3D11_CREATE_DEVICE_DEBUG == "D3D11_CREATE_DEVICE_DEBUG"

\* the flag sets CreateDevice passes
CreateDeviceFlags == {{}, {D3D11_CREATE_DEVICE_DEBUG}}

\* the results of D3D11CreateDevice, as values of HRESULT: S_OK, E_FAIL and
\* DXGI_ERROR_UNSUPPORTED
HResults == {0, -2147467259, -2005270524}

SUCCEEDED(hr) == hr >= 0

FAILED(hr) == hr < 0

\* what the runtime answers to a D3D11CreateDevice of each flag set and driver
\* type
CreateDeviceAnswers ==
    [CreateDeviceFlags -> [{DriverTypes[i] : i \in 1..Len(DriverTypes)} -> HResults]]

\* device_ when it holds no device
NoDevice == [driver |-> "none", flags |-> {}]

\* the highest value of LLGL_D3D11_ENABLE_FEATURELEVEL the code distinguishes
MaxEnabledFeatureLevel == 3

\* the call state of a device creation at entry: device_ is empty, and the
\* extended devices device1_, device2_, device3_ are
StartCreateDevice ==
    [StartD3D(<<>>) EXCEPT
        !.out = [ok |-> FALSE, hr |-> 0, device |-> NoDevice, extended |-> 0]]

\* D3D11CreateDevice(adapter, driver, 0, flags, ..., device_.ReleaseAndGetAddressOf(),
\* &featureLevel_, context_.ReleaseAndGetAddressOf()): the device held before is
\* released, and a device is stored when the call succeeds
D3D11CreateDevice(d, answers, driver, flags) ==
    Emit([d EXCEPT !.out.hr = answers[flags][driver],
                   !.out.device = IF SUCCEEDED(answers[flags][driver])
                                  THEN [driver |-> driver, flags |-> flags]
                                  ELSE NoDevice],
         [ev |-> "D3D11CreateDevice", driver |-> driver, flags |-> flags,
          hr |-> answers[flags][driver]])

RECURSIVE CreateDeviceWithFlags(_, _, _, _)

\* CreateDeviceWithFlags whose loop goes on to the next driver type after a
\* success
CreateDeviceWithFlags_NoEarlyReturn(d, answers, flags, i) ==
    IF i > Len(DriverTypes)
    THEN [d EXCEPT !.out.ok = FALSE]
    ELSE CreateDeviceWithFlags(D3D11CreateDevice(d, answers, DriverTypes[i], flags),
                               answers, flags, i + 1)

\* the return value of the loop body after the attempt that ended in d: true
\* when it succeeded, otherwise that of the rest of the loop
ReturnIfSucceeded(d, answers, flags, i) ==
    IF SUCCEEDED(d.out.hr)
    THEN [d EXCEPT !.out.ok = TRUE]
    ELSE CreateDeviceWithFlags(d, answers, flags, i + 1)

\* CreateDeviceWithFlags(adapter, featureLevels, flags, hr) from the i-th driver
\* type on; out.ok is the value returned
CreateDeviceWithFlags(d, answers, flags, i) ==
    IF i > Len(DriverTypes)
    THEN [d EXCEPT !.out.ok = FALSE]
    ELSE ReturnIfSucceeded(D3D11CreateDevice(d, answers, DriverTypes[i], flags),
                           answers, flags, i)

\* `if (!CreateDeviceWithFlags(..., D3D11_CREATE_DEVICE_DEBUG, hr))
\*      CreateDeviceWithFlags(..., 0, hr);` after the first call ended in d
RetryWithoutDebugLayer(d, answers) ==
    IF ~d.out.ok THEN CreateDeviceWithFlags(d, answers, {}, 1) ELSE d

\* DXThrowIfCreateFailed(hr, "ID3D11Device")
DXThrowIfCreateFailed(d) ==
    IF FAILED(d.out.hr) THEN Throw(d, "CreateFailed") ELSE d

\* device_->QueryInterface for the extended devices: the highest interface
\* that is both enabled in the build and implemented by the device is stored
QueryExtendedDevice(d, enabled, implemented) ==
    LET Query(x, version) ==
            Emit(x, [ev |-> "QueryInterface", version |-> version,
                     ok |-> version <= implemented])
        Stored(x) == [x EXCEPT !.out.extended = x.log[Len(x.log)].version]
        Query1(x) ==
            IF enabled >= 1
            THEN IF 1 <= implemented THEN Stored(Query(x, 1)) ELSE Query(x, 1)
            ELSE x
        Query2(x) ==
            IF enabled >= 2
            THEN IF 2 <= implemented THEN Stored(Query(x, 2)) ELSE Query1(Query(x, 2))
            ELSE Query1(x)
    IN  IF d.err # NoError THEN d
        ELSE IF enabled >= 3
        THEN IF 3 <= implemented THEN Stored(Query(d, 3)) ELSE Query2(Query(d, 3))
        ELSE Query2(d)

\* D3D11RenderSystem::CreateDevice(adapter) in a build with or without
\* LLGL_DEBUG
CreateDevice(d, debug, answers, enabled, implemented) ==
    QueryExtendedDevice(
        DXThrowIfCreateFailed(
            IF debug
            THEN RetryWithoutDebugLayer(
                     CreateDeviceWithFlags(d, answers, {D3D11_CREATE_DEVICE_DEBUG}, 1),
                     answers)
            ELSE CreateDeviceWithFlags(d, answers, {}, 1)),
        enabled, implemented)

\* a call of CreateDeviceWithFlags on a render system without a device
DoCreateDeviceWithFlags ==
    \E answers \in CreateDeviceAnswers, flags \in CreateDeviceFlags :
        /\ lastCall = NoCall
        /\ \A f \in CreateDeviceFlags \ {flags} :
               \A driver \in DOMAIN answers[f] : answers[f][driver] = 0
        /\ ReturnedD3D("CreateDeviceWithFlags", 0, 0, 0, 0, NullData,
                       [flags |-> flags, answers |-> answers],
                       CreateDeviceWithFlags(StartCreateDevice, answers, flags, 1))

\* the construction of the render system creates the device: CreateDevice(nullptr)
DoCreateDevice ==
    \E debug \in BOOLEAN, answers \in CreateDeviceAnswers,
       enabled \in 0..MaxEnabledFeatureLevel, implemented \in 0..MaxEnabledFeatureLevel :
        /\ lastCall = NoCall
        /\ ~debug => \A driver \in DOMAIN answers[{D3D11_CREATE_DEVICE_DEBUG}] :
                         answers[{D3D11_CREATE_DEVICE_DEBUG}][driver] = 0
        /\ enabled = 0 => implemented = 0
        /\ ReturnedD3D("CreateDevice", 0, 0, 0, 0, NullData,
                       [debug |-> debug, answers |-> answers, enabled |-> enabled,
                        implemented |-> implemented],
                       CreateDevice(StartCreateDevice, debug, answers, enabled,
                                    implemented))

\* the application has taken the result of the call; it may make the next call
Return ==
    /\ lastCall # NoCall
    /\ lastCall' = NoCall
    /\ UNCHANGED <<chunks, buffers, textures, failures, lastWrite, d3dTextures,
                   inFlight>>

\* the inputs in full: every byte value, source images of the native format and
\* of a format to convert, compressed and uncompressed textures
AllInputs == [bytes |-> Bytes, texelSizes |-> {1, 2}, compressed |-> BOOLEAN,
              types |-> {"Texture2D"}]

\* the inputs that decide which regions a call allocates and releases: the
\* data all zero, source images of the native format, uncompressed textures
PlainInputs == [bytes |-> ZeroBytes, texelSizes |-> {1}, compressed |-> {FALSE},
                types |-> {"Texture2D"}]

\* the memory manager driven directly
NextManager ==
    \/ DoAllocate
    \/ DoRelease
    \/ Return

SpecManager == Init /\ [][NextManager]_vars

\* the transfer calls, and host access to the memory of a buffer
NextMap ==
    \/ DoCreateBuffer(PlainInputs)
    \/ DoReleaseBuffer
    \/ DoWriteBuffer(PlainInputs)
    \/ DoReadBuffer(PlainInputs)
    \/ DoCreateTexture(PlainInputs)
    \/ DoReleaseTexture
    \/ DoWriteTexture(PlainInputs)
    \/ DoReadTexture(PlainInputs)
    \/ DoHostRead
    \/ Return

SpecMap == Init /\ [][NextMap]_vars

\* the construction of the render system, for every renderer configuration
NextConstruct == DoCreateRenderSystem \/ Return

SpecConstruct == Init /\ [][NextConstruct]_vars

\* the creation of the device, for every answer of the runtime
NextCreateDevice == DoCreateDeviceWithFlags \/ DoCreateDevice \/ Return

SpecCreateDevice == Init /\ [][NextCreateDevice]_vars

\* the search for a sample descriptor of one format, for every device
NextSampleDescOfFormat == DoFindSuitableSampleDescOfFormat \/ Return

SpecSampleDescOfFormat == Init /\ [][NextSampleDescOfFormat]_vars

\* the search for a sample descriptor, for every device
NextSampleDesc == DoFindSuitableSampleDesc \/ Return

SpecSampleDesc == Init /\ [][NextSampleDesc]_vars

\* the transfer calls on a device that completes a command buffer in a step of
\* its own
NextBlocking ==
    \/ DoCreateBufferVia(PlainInputs, TRUE)
    \/ DoWriteBufferVia(PlainInputs, TRUE)
    \/ DoReadBufferVia(PlainInputs, TRUE)
    \/ DoCreateTextureVia(PlainInputs, TRUE)
    \/ DoWriteTextureVia(PlainInputs, TRUE)
    \/ DoReadTextureVia(PlainInputs, TRUE)
    \/ CompleteFlush
    \/ Return

SpecBlocking == Init /\ [][NextBlocking]_vars

\* the device completes every command buffer submitted to it
SpecBlockingFair == Init /\ [][NextBlocking]_vars /\ WF_vars(CompleteFlush)

\* buffers only
NextBuffers ==
    \/ DoCreateBuffer(AllInputs)
    \/ DoReleaseBuffer
    \/ DoWriteBuffer(AllInputs)
    \/ DoReadBuffer(AllInputs)
    \/ Return

SpecBuffers == Init /\ [][NextBuffers]_vars

\* the inputs that decide what a call does with a multisampled texture
MultisampleInputs == [bytes |-> ZeroBytes, texelSizes |-> {1}, compressed |-> {FALSE},
                      types |-> {"Texture2D", "Texture2DMS"}]

\* Vulkan textures, multisampled ones among them
NextMultisample ==
    \/ DoCreateTexture(MultisampleInputs)
    \/ DoReleaseTexture
    \/ DoWriteTexture(MultisampleInputs)
    \/ DoReadTexture(MultisampleInputs)
    \/ Return

SpecMultisample == Init /\ [][NextMultisample]_vars

\* two buffers, created and written
NextTwoBuffers ==
    \/ DoCreateBuffer(AllInputs)
    \/ DoWriteBuffer(AllInputs)
    \/ Return

SpecTwoBuffers == InitTwoBuffers /\ [][NextTwoBuffers]_vars

\* the textures of the Direct3D 11 render system
NextD3D11 ==
    \/ DoD3D11CreateTexture(AllInputs)
    \/ DoD3D11ReleaseTexture
    \/ DoD3D11WriteTexture(AllInputs)
    \/ DoD3D11ReadTexture
    \/ Return

SpecD3D11 == Init /\ [][NextD3D11]_vars

\* creation and release of textures in both render systems
NextCreateTexture ==
    \/ DoCreateTexture(PlainInputs)
    \/ DoReleaseTexture
    \/ DoD3D11CreateTexture(PlainInputs)
    \/ DoD3D11ReleaseTexture
    \/ Return

SpecCreateTexture == Init /\ [][NextCreateTexture]_vars

\* textures only
NextTextures ==
    \/ DoCreateTexture(AllInputs)
    \/ DoReleaseTexture
    \/ DoWriteTexture(AllInputs)
    \/ DoReadTexture(AllInputs)
    \/ Return

SpecTextures == Init /\ [][NextTextures]_vars

\* buffers and textures side by side, sharing the chunks of the manager
Next ==
    \/ DoCreateBuffer(PlainInputs)
    \/ DoReleaseBuffer
    \/ DoWriteBuffer(PlainInputs)
    \/ DoReadBuffer(PlainInputs)
    \/ DoCreateTexture(PlainInputs)
    \/ DoReleaseTexture
    \/ DoWriteTexture(PlainInputs)
    \/ DoReadTexture(PlainInputs)
    \/ Return

Spec == Init /\ [][Next]_vars

---------------------------------------------------------------------------
(* Properties.  A call is observed in the state it returns to: lastCall     *)
(* holds its arguments, outcome and events; the other variables hold what   *)
(* it left behind.                                                          *)

\* the call that has just returned is an op call that returned normally
Ok(op) == lastCall.op = op /\ lastCall.err = NoError

\* the positions of the events of kind ev in a log
Positions(log, ev) == {i \in 1..Len(log) : log[i].ev = ev}

\* the kinds of the events of a log, in order
Kinds(log) == [i \in 1..Len(log) |-> log[i].ev]

\* C1: a ReadBuffer that returns normally, on the range that the last
\* WriteBuffer on the same buffer wrote (only ReadBuffer calls in between),
\* returns the bytes that were written, in the retained and in the transient
\* path.
C1_RoundTrip ==
    (/\ Ok("ReadBuffer")
     /\ lastWrite.buf = lastCall.id
     /\ lastWrite.offset = lastCall.offset
     /\ Len(lastWrite.data) = lastCall.size)
        => lastCall.out = lastWrite.data

\* C1, the case: a byte other than the fill value written at a non-zero offset
\* through a transient staging buffer and read back
C1_Witness ==
    /\ Ok("ReadBuffer")
    /\ ~lastCall.retained
    /\ lastWrite.buf = lastCall.id
    /\ lastWrite.offset = lastCall.offset
    /\ lastCall.offset > 0
    /\ lastWrite.data = <<1>>
    /\ lastCall.size = 1
    /\ lastCall.out = <<1>>

\* two spans of a chunk share no byte
Disjoint(a, b) == SpanEnd(a) <= b.offset \/ SpanEnd(b) <= a.offset

\* the regions the resources hold: who holds which
Holdings ==
    {[kind |-> "buffer", id |-> b, region |-> buffers[b].region] :
        b \in {x \in BufferIds : buffers[x].live /\ buffers[x].region # NoRegion}}
    \union
    {[kind |-> "staging", id |-> b, region |-> buffers[b].staging.region] :
        b \in {x \in BufferIds : buffers[x].live /\ buffers[x].staging.valid}}
    \union
    {[kind |-> "texture", id |-> t, region |-> textures[t].region] :
        t \in {x \in TextureIds : textures[x].live}}

RECURSIVE SumSizes(_)
SumSizes(S) ==
    IF S = {} THEN 0
    ELSE LET x == CHOOSE y \in S : TRUE IN x.size + SumSizes(S \ {x})

\* the sum of the sizes of the spans of a free list
FreeSize(free) == SumSizes({[i |-> i, size |-> free[i].size] : i \in 1..Len(free)})

\* C3: in every chunk the free spans are sorted by offset and share no byte,
\* and the sizes of the free spans and of the leased regions add up to the size
\* of the chunk.
C3_Conservation ==
    \A c \in 1..Len(chunks) :
        /\ \A i \in 1..(Len(chunks[c].free) - 1) :
               SpanEnd(chunks[c].free[i]) <= chunks[c].free[i + 1].offset
        /\ \A i \in 1..Len(chunks[c].free) :
               chunks[c].free[i].size > 0 /\ chunks[c].free[i].offset >= 0
        /\ FreeSize(chunks[c].free) + SumSizes(chunks[c].used) = chunks[c].size

\* C3, the case: a chunk with two free spans around leased regions, after a
\* release
C3_Witness ==
    /\ lastCall.op \in {"ReleaseBuffer", "ReleaseTexture"}
    /\ \E c \in 1..Len(chunks) :
           Len(chunks[c].free) >= 2 /\ chunks[c].used # {}

\* every region allocated during the call was released later in the call
AllocationsReleased(log) ==
    \A i \in Positions(log, "Allocate") :
        \E j \in Positions(log, "Release") : j > i /\ log[j].region = log[i].region

\* C4: a WriteBuffer or ReadBuffer on a buffer without a retained staging
\* buffer, a WriteTexture and a ReadTexture, when they return normally, have
\* released every region they allocated and leave the leased regions as they
\* were at entry; a CreateTexture, and a CreateBuffer of a buffer that does not
\* keep its staging buffer, add the primary region of the new resource and
\* nothing else.
C4_TransientStagingReleased ==
    /\ (\/ (Ok("WriteBuffer") \/ Ok("ReadBuffer")) /\ ~lastCall.retained
        \/ Ok("WriteTexture")
        \/ Ok("ReadTexture"))
        => /\ AllocationsReleased(lastCall.log)
           /\ Leased(chunks) = lastCall.before
    /\ Ok("CreateTexture")
        => /\ textures[lastCall.id].region \notin lastCall.before
           /\ Leased(chunks) = lastCall.before \union {textures[lastCall.id].region}
    /\ (/\ Ok("CreateBuffer")
        /\ lastCall.desc.cpuAccessFlags = {}
        /\ ~lastCall.desc.dynamicUsage)
        => /\ buffers[lastCall.id].region \notin lastCall.before
           /\ Leased(chunks) = lastCall.before \union {buffers[lastCall.id].region}

\* C4, the case: a WriteTexture that allocated a staging region next to the
\* regions of a buffer and of the texture and has returned normally
C4_Witness ==
    /\ Ok("WriteTexture")
    /\ Positions(lastCall.log, "Allocate") # {}
    /\ Positions(lastCall.log, "Release") # {}
    /\ Cardinality(lastCall.before) >= 3

\* C5: the leased regions are one primary region per live buffer and per live
\* texture and one staging region per live buffer that keeps its staging
\* buffer, and no others; releasing a buffer returns its primary region and its
\* retained staging region, releasing a texture returns its region, and no
\* release meets a region that is not leased.
C5_LeaseAccounting ==
    /\ \A b \in BufferIds : buffers[b].live => buffers[b].region # NoRegion
    /\ Leased(chunks) = {h.region : h \in Holdings}
    /\ Cardinality(Leased(chunks)) = Cardinality(Holdings)
    /\ Ok("ReleaseBuffer")
        => /\ Leased(chunks) \subseteq lastCall.before
           /\ Cardinality(lastCall.before \ Leased(chunks))
                  = IF lastCall.retained THEN 2 ELSE 1
    /\ Ok("ReleaseTexture")
        => /\ Leased(chunks) \subseteq lastCall.before
           /\ Cardinality(lastCall.before \ Leased(chunks)) = 1
    /\ Positions(lastCall.log, "InvalidRelease") = {}

\* the lease accounting of C5 as long as no device allocation has failed
C5_AccountingWhileNoAllocationFailed == failures = 0 => C5_LeaseAccounting

\* the region a call allocated first
FirstAllocated(log) ==
    log[CHOOSE i \in Positions(log, "Allocate") :
            \A j \in Positions(log, "Allocate") : i <= j].region

\* C6: CreateBuffer leaves the buffer with a staging buffer exactly when the
\* descriptor has a CPU-access flag or the DynamicUsage flag; it then keeps the
\* staging region leased and otherwise has released it on return.  WriteBuffer
\* and ReadBuffer on a buffer without a staging buffer allocate one region and
\* release it, once per call; on a buffer with a staging buffer they allocate
\* and release nothing.
C6_RetainedOrTransient ==
    /\ Ok("CreateBuffer")
        => LET keep    == lastCall.desc.cpuAccessFlags # {} \/ lastCall.desc.dynamicUsage
               staging == FirstAllocated(lastCall.log)
           IN  /\ buffers[lastCall.id].staging.valid <=> keep
               /\ keep => /\ buffers[lastCall.id].staging.region = staging
                          /\ staging \in Leased(chunks)
                          /\ Positions(lastCall.log, "Release") = {}
               /\ ~keep => /\ staging \notin Leased(chunks)
                           /\ \E j \in Positions(lastCall.log, "Release") :
                                  lastCall.log[j].region = staging
    /\ (Ok("WriteBuffer") \/ Ok("ReadBuffer"))
        => IF lastCall.retained
           THEN /\ Positions(lastCall.log, "Allocate") = {}
                /\ Positions(lastCall.log, "Release") = {}
           ELSE /\ Cardinality(Positions(lastCall.log, "Allocate")) = 1
                /\ Cardinality(Positions(lastCall.log, "Release")) = 1
                /\ AllocationsReleased(lastCall.log)
                /\ Leased(chunks) = lastCall.before

\* C6, the case: a buffer created with the DynamicUsage flag and no CPU-access
\* flag keeps its staging buffer
C6_Witness ==
    /\ Ok("CreateBuffer")
    /\ lastCall.desc.cpuAccessFlags = {}
    /\ lastCall.desc.dynamicUsage
    /\ buffers[lastCall.id].staging.valid
    /\ buffers[lastCall.id].staging.region \in Leased(chunks)

\* C7: in CreateBuffer, WriteBuffer and ReadBuffer every buffer-to-buffer copy
\* is flushed (submitted and waited for) as soon as it is recorded; the host
\* reads staging memory only after a copy into it has been flushed; and a
\* region is released only after every copy that reads or writes it has been
\* flushed, so no copy is in flight on a region that is free to be leased
\* again.  A call that returns normally and releases a staging region has
\* flushed a copy on that region before.
C7_BufferCopiesSynchronous ==
    LET log    == lastCall.log
        copies == Positions(log, "CopyBuffer")
    IN  lastCall.op \in {"CreateBuffer", "WriteBuffer", "ReadBuffer"}
        => /\ \A i \in copies : i < Len(log) /\ log[i + 1].ev = "Flush"
           /\ \A k \in Positions(log, "HostRead") :
                  \E i \in copies : i + 1 < k /\ log[i].dst = log[k].region
           /\ \A k \in Positions(log, "Release") :
                  /\ \A i \in copies :
                         log[k].region \in {log[i].src, log[i].dst} => i + 1 < k
                  /\ lastCall.err = NoError
                         => \E i \in copies : log[k].region \in {log[i].src, log[i].dst}

\* C7, the case: a ReadBuffer through a transient staging buffer that copied,
\* flushed, read the staging memory on the host and released the region
C7_Witness ==
    /\ Ok("ReadBuffer")
    /\ ~lastCall.retained
    /\ Positions(lastCall.log, "CopyBuffer") # {}
    /\ Positions(lastCall.log, "HostRead") # {}
    /\ Positions(lastCall.log, "Release") # {}

\* the events of a log that are commands, flushes and releases
Protocol(log) ==
    LET IsStep(e) == e.ev \in {"Transition", "CopyBufferToImage", "CopyImageToBuffer",
                               "GenerateMips", "Flush", "Release"}
    IN  SelectSeq(log, IsStep)

\* C8: a CreateTexture or WriteTexture that returns normally has recorded the
\* transition to the transfer-destination layout, then the copy from the
\* staging buffer into the image, then the transition from the
\* transfer-destination to the shader-read-only layout (and CreateTexture then
\* possibly the MIP generation); the copy is on a MIP level that the first
\* transition covers; there is one flush, after these; and the staging region
\* the copy read from is released after the flush.
C8_TextureWriteOrder ==
    (Ok("CreateTexture") \/ Ok("WriteTexture"))
        => LET p == Protocol(lastCall.log)
           IN  /\ \/ Kinds(p) = <<"Transition", "CopyBufferToImage", "Transition",
                                  "Flush", "Release">>
                  \/ /\ lastCall.op = "CreateTexture"
                     /\ Kinds(p) = <<"Transition", "CopyBufferToImage", "Transition",
                                     "GenerateMips", "Flush", "Release">>
               /\ p[1].new = TransferDstOptimal
               /\ p[2].img.id = p[1].img.id
               /\ p[2].img.mips \subseteq p[1].img.mips
               /\ lastCall.mip \in p[2].img.mips
               /\ p[3].old = TransferDstOptimal
               /\ p[3].new = ShaderReadOnlyOptimal
               /\ p[3].img = p[1].img
               /\ p[Len(p)].region = p[2].src
               /\ p[2].src = FirstAllocated(lastCall.log)

\* C8, the case: a WriteTexture on the second MIP level, and before it a
\* CreateTexture, have returned normally
C8_Witness ==
    /\ Ok("WriteTexture")
    /\ lastCall.mip = 1
    /\ Len(Protocol(lastCall.log)) = 5

\* C9: a ReadTexture that returns normally has allocated the staging region,
\* recorded the transition to the transfer-source layout, the copy from the
\* image into the staging buffer and the transition back from the
\* transfer-source layout, flushed once, then mapped the staging region, copied
\* it to host memory, unmapped it and released it, in this order and with
\* nothing else in between.
C9_TextureReadOrder ==
    Ok("ReadTexture")
        => LET log == lastCall.log
           IN  /\ Kinds(log) = <<"Allocate", "Transition", "CopyImageToBuffer",
                                 "Transition", "Flush", "Map", "HostRead", "Unmap",
                                 "Release">>
               /\ log[2].new = TransferSrcOptimal
               /\ log[2].img = [id |-> lastCall.id, mips |-> {lastCall.mip}]
               /\ log[3].img = log[2].img
               /\ log[3].dst = log[1].region
               /\ log[4].old = TransferSrcOptimal
               /\ log[4].img = log[2].img
               /\ \A k \in 6..9 : log[k].region = log[1].region

\* C9, the case: a ReadTexture of one texel of the second MIP level that has
\* returned data
C9_Witness ==
    /\ Ok("ReadTexture")
    /\ lastCall.mip = 1
    /\ Len(lastCall.out) = 1
    /\ Len(lastCall.log) = 9

\* the last transition a call recorded
LastTransition(log) ==
    log[CHOOSE i \in Positions(log, "Transition") :
            \A j \in Positions(log, "Transition") : j <= i]

\* after a call on a texture has returned normally, the last transition it
\* recorded is one to the shader-read-only layout on the MIP levels the call
\* touched, and these levels are in that layout
LayoutOnReturn ==
    (Ok("CreateTexture") \/ Ok("WriteTexture") \/ Ok("ReadTexture"))
        => LET touched == IF lastCall.op = "CreateTexture"
                          THEN 0..(textures[lastCall.id].mips - 1)
                          ELSE {lastCall.mip}
               last    == LastTransition(lastCall.log)
           IN  /\ last.new = ShaderReadOnlyOptimal
               /\ last.img = [id |-> lastCall.id, mips |-> touched]
               /\ \A m \in touched :
                      textures[lastCall.id].layout[m + 1] = ShaderReadOnlyOptimal

\* a step that is a normally returning ReadTexture leaves every MIP level of the
\* texture in the layout it had
ReadTextureKeepsLayout ==
    Ok("ReadTexture")'
        => textures'[lastCall'.id].layout = textures[lastCall'.id].layout

\* C10: whatever CreateTexture, WriteTexture and ReadTexture calls have been
\* made, the last transition a call records leaves the MIP levels it touched in
\* the shader-read-only layout, and a ReadTexture returns the image to the
\* layout it had before the call.
C10_LayoutOnReturn == [](LayoutOnReturn) /\ [][ReadTextureKeepsLayout]_vars

\* C10, the case: a ReadTexture of the second MIP level of a texture that was
\* written before has returned with both levels in the shader-read-only layout
C10_Witness ==
    /\ Ok("ReadTexture")
    /\ lastCall.mip = 1
    /\ textures[lastCall.id].layout = <<ShaderReadOnlyOptimal, ShaderReadOnlyOptimal>>
    /\ LastTransition(lastCall.log).old = TransferSrcOptimal

---------------------------------------------------------------------------
(* MIP-map generation on creation *)

\* the call recorded (Vulkan) or performed (Direct3D 11) a MIP-map generation
GeneratedMips(log) == Positions(log, "GenerateMips") # {}

\* the descriptors of the call ask for it: initial image data is given and the
\* texture descriptor requests the generation of MIP-maps on creation
MipsRequested(desc) == desc.image.present /\ MustGenerateMipsOnCreate(desc.texture)

\* C11: a CreateTexture that returns normally, in the Vulkan and in the
\* Direct3D 11 render system, has generated MIP-maps if and only if an image
\* descriptor was supplied and the texture descriptor requests the generation;
\* a texture filled with the clear value or left without initial data gets none.
C11_MipGenerationCondition ==
    /\ Ok("CreateTexture")
        => (GeneratedMips(lastCall.log) <=> MipsRequested(lastCall.desc))
    /\ Ok("D3D11CreateTexture")
        => /\ GeneratedMips(lastCall.log) <=> MipsRequested(lastCall.desc)
           /\ d3dTextures[lastCall.id].mipsGenerated <=> MipsRequested(lastCall.desc)

\* C11, the cases: a texture whose descriptor requests MIP-maps was created from
\* the clear value without generating any, in either render system, and one was
\* created from an image with the generation
C11_Witness ==
    /\ Ok("CreateTexture") \/ Ok("D3D11CreateTexture")
    /\ MustGenerateMipsOnCreate(lastCall.desc.texture)
    /\ ~lastCall.desc.image.present
    /\ ~lastCall.desc.texture.noInitialData
    /\ ~GeneratedMips(lastCall.log)

\* the position of the only event of kind ev in a log, 0 if there is none or
\* more than one
Only(log, ev) ==
    IF Cardinality(Positions(log, ev)) = 1 THEN CHOOSE i \in Positions(log, ev) : TRUE
    ELSE 0

\* the position in a log of the last transition to the shader-read-only layout,
\* 0 if there is none
FinalTransition(log) ==
    LET ts == {i \in Positions(log, "Transition") : log[i].new = ShaderReadOnlyOptimal}
    IN  IF ts = {} THEN 0 ELSE CHOOSE i \in ts : \A j \in ts : j <= i

---------------------------------------------------------------------------
(* Validation of image data *)

\* the size in bytes that the data of an image of n texels must have: its size
\* in the format of the source image when the image is converted, and else its
\* size in the native format of the texture
RequiredImageDataSize(compressed, imageDesc, n) ==
    IF ~compressed /\ imageDesc.texelSize # 1 THEN n * imageDesc.texelSize
    ELSE GetMemoryFootprint(n)

\* the call that has returned is a CreateTexture or WriteTexture whose image
\* data is smaller than required
ImageDataTooSmall(call, texs) ==
    \/ /\ call.op = "CreateTexture"
       /\ call.desc.image.present
       /\ call.desc.image.dataSize
              < RequiredImageDataSize(call.desc.texture.compressed, call.desc.image,
                                      call.desc.texture.texels)
    \/ /\ call.op = "WriteTexture"
       /\ call.desc.image.dataSize
              < RequiredImageDataSize(texs[call.id].compressed, call.desc.image, call.size)

\* such a call has failed without any allocation, command, flush or host
\* access, and the leased regions are those at entry
FailedBeforeDeviceCall ==
    ImageDataTooSmall(lastCall, textures)
        => /\ lastCall.err = "ImageDataSizeMismatch"
           /\ lastCall.log = <<>>
           /\ Leased(chunks) = lastCall.before

\* a step that is such a call changes neither the texture registry nor the
\* memory manager
FailedCallChangesNothing ==
    ImageDataTooSmall(lastCall', textures)
        => /\ textures' = textures
           /\ chunks' = chunks

\* C13: a CreateTexture or WriteTexture whose image data is smaller than the
\* required size fails before a staging buffer is allocated, a texture is
\* created, or a command is recorded or submitted; the leased regions and the
\* texture registry are as before the call.
C13_ValidationBeforeDeviceCall ==
    [](FailedBeforeDeviceCall) /\ [][FailedCallChangesNothing]_vars

\* C13, the cases: a WriteTexture on a live texture, and a CreateTexture, have
\* failed for data that is too small
C13_Witness ==
    /\ ImageDataTooSmall(lastCall, textures)
    /\ lastCall.err = "ImageDataSizeMismatch"
    /\ lastCall.op = "WriteTexture"
    /\ textures[lastCall.id].live
    /\ Leased(chunks) # {}

\* the call that has returned is a CreateTexture or WriteTexture whose source
\* image is converted to the native format of the texture
ImageConverted(call, texs) ==
    \/ /\ call.op = "CreateTexture"
       /\ call.desc.image.present
       /\ ~call.desc.texture.compressed
       /\ call.desc.image.texelSize # 1
    \/ /\ call.op = "WriteTexture"
       /\ ~texs[call.id].compressed
       /\ call.desc.image.texelSize # 1

\* the number of texels of the image of a CreateTexture or WriteTexture call
ImageTexels(call) ==
    IF call.op = "CreateTexture" THEN call.desc.texture.texels ELSE call.size

\* C14, as stated: when the source image is converted, the call fails with the
\* image-data-size error exactly when the data is smaller than the converted
\* image, i.e. than the footprint of the image in the native format.
C14_ValidatedAgainstConvertedSize ==
    ImageConverted(lastCall, textures)
        => (lastCall.err = "ImageDataSizeMismatch"
                <=> lastCall.desc.image.dataSize
                        < GetMemoryFootprint(ImageTexels(lastCall)))

\* C14, amended: when the source image is converted, the call fails with the
\* image-data-size error exactly when the data is smaller than the image in the
\* format of the source, i.e. than the number of texels times the size of a
\* texel of the source image.
C14_ValidatedAgainstSourceSize ==
    ImageConverted(lastCall, textures)
        => (lastCall.err = "ImageDataSizeMismatch"
                <=> lastCall.desc.image.dataSize
                        < ImageTexels(lastCall) * lastCall.desc.image.texelSize)

\* C14, the case: a WriteTexture of an image to convert has failed although the
\* data is not smaller than the footprint of the image in the native format
C14_Witness ==
    /\ lastCall.op = "WriteTexture"
    /\ ImageConverted(lastCall, textures)
    /\ lastCall.desc.image.dataSize >= GetMemoryFootprint(ImageTexels(lastCall))
    /\ lastCall.desc.image.dataSize < ImageTexels(lastCall) * lastCall.desc.image.texelSize
    /\ lastCall.err = "ImageDataSizeMismatch"

---------------------------------------------------------------------------
(* Direct3D 11: initial data of textures *)

\* the call that has returned is a D3D11 CreateTexture with initial data whose
\* size is not a multiple of the number of array layers
IndivisibleInitialData(call) ==
    /\ call.op = "D3D11CreateTexture"
    /\ call.desc.image.present
    /\ call.desc.image.dataSize % call.desc.texture.arrayLayers # 0

\* C15: a CreateTexture with initial data whose size is not a multiple of the
\* number of array layers fails with the invalid-argument error before any
\* device call: no native texture has been created and no sub-resource updated.
C15_LayerDivisibility ==
    IndivisibleInitialData(lastCall)
        => /\ lastCall.err = "InvalidArgument"
           /\ lastCall.log = <<>>
           /\ d3dTextures[lastCall.id] = NoD3DTexture

\* what holds of such a call: it fails with the invalid-argument error, no
\* sub-resource has been updated, and no texture has joined the registry
C15_FailsBeforeAnyUpdate ==
    IndivisibleInitialData(lastCall)
        => /\ lastCall.err = "InvalidArgument"
           /\ Positions(lastCall.log, "UpdateSubresource") = {}
           /\ d3dTextures[lastCall.id] = NoD3DTexture

---------------------------------------------------------------------------
(* Multisampled textures *)

\* the call that has returned is a WriteTexture, of either render system, on a
\* multisampled texture
MultisampleWrite(call, vkTextures, d3d) ==
    \/ call.op = "WriteTexture" /\ IsMultiSampleTexture(vkTextures[call.id].type)
    \/ call.op = "D3D11WriteTexture" /\ IsMultiSampleTexture(d3d[call.id].type)

\* C16: a WriteTexture on a multisampled texture updates no sub-resource,
\* allocates no staging buffer, records no copy and reports no error.
C16_MultisampleSkip ==
    MultisampleWrite(lastCall, textures, d3dTextures)
        => /\ lastCall.err = NoError
           /\ lastCall.log = <<>>
           /\ Leased(chunks) = lastCall.before

\* a step that is a WriteTexture of the Direct3D 11 render system on a
\* multisampled texture does nothing and reports no error
D3D11MultisampleWriteSkips ==
    (lastCall'.op = "D3D11WriteTexture"
        /\ IsMultiSampleTexture(d3dTextures[lastCall'.id].type))
        => /\ lastCall'.err = NoError
           /\ lastCall'.log = <<>>
           /\ d3dTextures' = d3dTextures

\* what holds: the Direct3D 11 render system skips the write
C16_D3D11MultisampleSkip == [][D3D11MultisampleWriteSkips]_vars


\* the last call created a texture of an uncompressed colour format without an
\* image descriptor and without MiscFlags::NoInitialData
DefaultInitialised ==
    /\ Ok("CreateTexture")
    /\ ~lastCall.desc.image.present
    /\ ~lastCall.desc.texture.noInitialData
    /\ ~lastCall.desc.texture.compressed

\* the last call read the region of the texture that the last WriteTexture
\* wrote, with data of the native format and of the size of the region
ReadBackOfWrittenRegion ==
    /\ Ok("ReadTexture")
    /\ lastWrite.op = "WriteTexture"
    /\ lastWrite.buf = lastCall.id
    /\ lastWrite.mip = lastCall.mip
    /\ lastWrite.offset = lastCall.offset
    /\ Len(lastWrite.data) = lastCall.size
    /\ ~textures[lastCall.id].compressed

\* C17, first half: a texture created without an image descriptor and without
\* NoInitialData has every texel of its base level equal to the clear colour
C17_DefaultContents ==
    DefaultInitialised
        => textures[lastCall.id].mem[1]
               = Fill(lastCall.desc.texture.texels, lastCall.desc.texture.clearValue)

\* C17, second half: ReadTexture of the region that the last WriteTexture wrote
\* returns the written bytes
C17_ReadBackReturnsWritten ==
    ReadBackOfWrittenRegion => lastCall.out = lastWrite.data

\* C17, as stated: a texture of an uncompressed colour format created without an
\* image descriptor and without NoInitialData has every texel of its base level
\* equal to the clear colour, and after a later WriteTexture of a region,
\* ReadTexture of that region returns the written bytes.
C17_DefaultContentsAndReadBack ==
    /\ C17_DefaultContents
    /\ C17_ReadBackReturnsWritten

\* C17, the case: a region written with a byte other than the clear colour has
\* been read back
C17_ReadBackCase ==
    /\ ReadBackOfWrittenRegion
    /\ lastWrite.data = <<1>>


---------------------------------------------------------------------------
(* Depth/stencil textures without initial data *)

\* the call that has returned created a depth/stencil texture without initial
\* image data
DepthStencilWithoutImage(call) ==
    /\ call.op = "D3D11CreateTexture"
    /\ IsDepthStencilFormat(call.desc.texture.format)
    /\ ~call.desc.image.present

\* C18: creating a depth/stencil-format texture without initial image data
\* updates no sub-resource and raises no error, whatever the clear value and
\* the number of layers; the texture is created and registered.
C18_DepthStencilGap ==
    DepthStencilWithoutImage(lastCall)
        => /\ lastCall.err = NoError
           /\ Positions(lastCall.log, "UpdateSubresource") = {}
           /\ Positions(lastCall.log, "CreateNativeTexture") # {}
           /\ d3dTextures[lastCall.id].live
           /\ d3dTextures[lastCall.id].format = lastCall.desc.texture.format

\* C18, the case: a depth/stencil texture of two layers has been created
\* without image data, with a clear value other than zero to fill it with
C18_Witness ==
    /\ DepthStencilWithoutImage(lastCall)
    /\ ~lastCall.desc.texture.noInitialData
    /\ lastCall.desc.texture.clearValue = 1
    /\ lastCall.desc.texture.arrayLayers = MaxLayers
    /\ d3dTextures[lastCall.id].live


---------------------------------------------------------------------------
(* Memory kinds *)

\* the property flags of the memory that region r was leased from
MemoryPropertiesOf(r) == MemoryTypes[chunks[r.chunk].memType]

\* the region lies in host-visible, host-coherent memory that is not
\* device-local
IsStagingMemory(r) ==
    /\ {HostVisible, HostCoherent} \subseteq MemoryPropertiesOf(r)
    /\ DeviceLocal \notin MemoryPropertiesOf(r)

\* the calls whose first allocation is that of their staging buffer
StagingCalls ==
    {"CreateBuffer", "WriteBuffer", "ReadBuffer",
     "CreateTexture", "WriteTexture", "ReadTexture"}

\* C19: the region of every staging buffer, the transient one a call allocates
\* first and the one a buffer retains, lies in host-visible and host-coherent
\* memory and never in device-local memory; the primary region of every buffer
\* lies in device-local memory.
C19_MemoryKinds ==
    /\ (lastCall.op \in StagingCalls /\ Positions(lastCall.log, "Allocate") # {})
        => IsStagingMemory(FirstAllocated(lastCall.log))
    /\ \A b \in BufferIds :
        /\ (buffers[b].staging.valid /\ buffers[b].staging.region # NoRegion)
            => IsStagingMemory(buffers[b].staging.region)
        /\ (buffers[b].live /\ buffers[b].region # NoRegion)
            => DeviceLocal \in MemoryPropertiesOf(buffers[b].region)

\* C19, the case: a call on a texture has allocated and released its staging
\* buffer while a buffer holds a primary region and a retained staging buffer
C19_Witness ==
    /\ Ok("WriteTexture")
    /\ Positions(lastCall.log, "Allocate") # {}
    /\ \E b \in BufferIds :
        /\ buffers[b].staging.valid
        /\ buffers[b].staging.region # NoRegion
        /\ buffers[b].region # NoRegion


---------------------------------------------------------------------------
(* CreateStagingBufferAndInitialize *)

\* every region mapped during the call was unmapped before it was mapped again
\* and before the call returned
UnmappedOnReturn(log) ==
    \A i \in Positions(log, "Map") :
        \E j \in Positions(log, "Unmap") :
            /\ j > i
            /\ log[j].region = log[i].region
            /\ \A k \in Positions(log, "Map") : ~(i < k /\ k < j)

\* C20: the staging buffer that CreateStagingBufferAndInitialize returns to
\* CreateBuffer holds the host data in its first dataSize bytes when the data
\* pointer is not null, written once into the staging region; with a null data
\* pointer nothing is mapped or written; on return the staging region is not
\* mapped.
C20_CreateAndInitialize ==
    Ok("CreateBuffer")
        => /\ UnmappedOnReturn(lastCall.log)
           /\ IF lastCall.data.null
              THEN /\ Positions(lastCall.log, "HostWrite") = {}
                   /\ Positions(lastCall.log, "Map") = {}
              ELSE /\ \A i \in Positions(lastCall.log, "HostWrite") :
                          lastCall.log[i].region = FirstAllocated(lastCall.log)
                   /\ Cardinality(Positions(lastCall.log, "HostWrite")) = 1
                   /\ buffers[lastCall.id].staging.valid
                          => Slice(buffers[lastCall.id].staging.mem, 0, lastCall.size)
                                 = lastCall.data.bytes

\* C20, the case: a buffer that keeps its staging buffer has been created with
\* initial data other than what fresh memory holds
C20_Witness ==
    /\ Ok("CreateBuffer")
    /\ buffers[lastCall.id].staging.valid
    /\ lastCall.data = Data(<<1, 0>>)
    /\ Positions(lastCall.log, "Unmap") # {}

\* C20, the other case: a buffer that keeps its staging buffer has been created
\* with a null data pointer
C20_WitnessNull ==
    /\ Ok("CreateBuffer")
    /\ buffers[lastCall.id].staging.valid
    /\ lastCall.data.null


---------------------------------------------------------------------------
(* The device memory manager driven directly (SpecManager) *)

\* the request of the Allocate call that has returned
Request == lastCall.desc.requirements

\* the region the Allocate call that has returned was given
Allocated == FirstAllocated(lastCall.log)

\* the memory types acceptable for the request of the call that has returned
Acceptable == AcceptableTypes(Request.memoryTypeBits, lastCall.desc.flags)

\* C21: the offset of every region returned by Allocate is a multiple of the
\* alignment of the request, also when the region is carved out of a free span
\* that releases have left and merged; the region has the size requested and
\* lies within its chunk.
C21_Alignment ==
    Ok("Allocate")
        => /\ Cardinality(Positions(lastCall.log, "Allocate")) = 1
           /\ Allocated.offset % Request.alignment = 0
           /\ Allocated.size = Request.size
           /\ Allocated \in Leased(chunks)
           /\ Allocated.offset + Allocated.size <= chunks[Allocated.chunk].size

\* C21, the case: a region of alignment 2 has been carved out of the middle of
\* a free span that starts at an odd offset, behind a region still leased
C21_Witness ==
    /\ Ok("Allocate")
    /\ Request.alignment = 2
    /\ lastCall.before # {}
    /\ \E i \in 1..Len(chunks[Allocated.chunk].free) :
        /\ chunks[Allocated.chunk].free[i].offset % 2 = 1
        /\ SpanEnd(chunks[Allocated.chunk].free[i]) = Allocated.offset


\* no free span of a chunk ends where the next one starts
NoAdjacentFreeSpans ==
    \A c \in 1..Len(chunks) :
        \A i \in 1..(Len(chunks[c].free) - 1) :
            SpanEnd(chunks[c].free[i]) < chunks[c].free[i + 1].offset

\* the free spans of free list F that end where region r starts or start where
\* it ends
AdjacentFree(F, r) ==
    {i \in 1..Len(F) : SpanEnd(F[i]) = r.offset \/ F[i].offset = r.offset + r.size}

\* the step is a Release of a leased region r: the free list of its chunk
\* holds, in place of the free spans that were adjacent to r, one span of the
\* size of r plus the sizes of those spans, which covers r
ReleaseCoalesces ==
    (/\ lastCall'.op = "Release"
     /\ lastCall'.desc.region \in Leased(chunks))
        => LET r   == lastCall'.desc.region
               F   == chunks[r.chunk].free
               G   == chunks'[r.chunk].free
               adj == AdjacentFree(F, r)
           IN  /\ Len(G) = Len(F) + 1 - Cardinality(adj)
               /\ \E j \in 1..Len(G) :
                    /\ G[j].offset <= r.offset
                    /\ r.offset + r.size <= SpanEnd(G[j])
                    /\ G[j].size
                        = r.size + SumSizes({[i |-> i, size |-> F[i].size] : i \in adj})
               /\ r \notin Leased(chunks')

\* C22: after every Release no free list of a chunk contains two adjacent free
\* spans; releasing a region yields one free span of the size of the region
\* plus the free spans that were adjacent to it, so that two adjacent regions
\* released in either order leave one free span of the size of both plus any
\* free span that was already adjacent.
C22_Coalescing == [](NoAdjacentFreeSpans) /\ [][ReleaseCoalesces]_vars

\* C22, the case: the second of two adjacent regions has been released, the
\* first one and the span behind the second one being free: the free span that
\* covers it reaches beyond it on both sides
C22_Witness ==
    /\ Ok("Release")
    /\ lastCall.desc.region \in lastCall.before
    /\ \E i \in 1..Len(chunks[lastCall.desc.region.chunk].free) :
        LET f == chunks[lastCall.desc.region.chunk].free[i]
        IN  /\ f.offset < lastCall.desc.region.offset
            /\ SpanEnd(f) > lastCall.desc.region.offset + lastCall.desc.region.size


\* the step creates a chunk: it is an Allocate that no chunk of the memory type
\* of the new chunk could serve, it creates one chunk, the region lies in it,
\* and the size of the chunk is at least the minimum allocation size and the
\* size requested, and a multiple of the minimum allocation size
ChunkGrowth ==
    Len(chunks') # Len(chunks)
        => LET new == chunks'[Len(chunks')]
               req == lastCall'.desc.requirements
           IN  /\ lastCall'.op = "Allocate"
               /\ lastCall'.err = NoError
               /\ Len(chunks') = Len(chunks) + 1
               /\ \A c \in 1..Len(chunks) : chunks'[c] = chunks[c]
               /\ FindChunk(chunks, new.memType, req.size, req.alignment) = 0
               /\ new.size >= Max(MinAllocationSize, req.size)
               /\ new.size % MinAllocationSize = 0
               /\ new.used = {Span(0, req.size)}

\* C23: a chunk is created only by an Allocate that no existing chunk of the
\* memory type can serve; the size of the new chunk is at least
\* max(minimum allocation size, requested size) and a multiple of the chunk
\* granularity, so a request larger than the granularity gets a chunk at
\* least as large as the request.
C23_ChunkGrowth == [][ChunkGrowth]_vars

\* C23, the case: a request larger than the minimum allocation size has been
\* served from a chunk created for it, while an older chunk exists
C23_Witness ==
    /\ Ok("Allocate")
    /\ Request.size > MinAllocationSize
    /\ Allocated.chunk = Len(chunks)
    /\ Len(chunks) = 2
    /\ chunks[1].size = MinAllocationSize
    /\ chunks[Allocated.chunk].used = {Span(0, Request.size)}
    /\ chunks[Allocated.chunk].size = 2 * MinAllocationSize


\* the chunks of table cs, of a memory type in types, with a free span that
\* can hold the request
FittingChunks(cs, types, req) ==
    {c \in 1..Len(cs) :
        /\ cs[c].memType \in types
        /\ FindFreeSpan(cs[c].free, req.size, req.alignment) # 0}

\* the least of a non-empty set of chunk indexes
FirstChunk(S) == CHOOSE c \in S : \A d \in S : c <= d

\* the step is an Allocate that returned region r: r lies in the first of the
\* chunks of the given memory types that could hold the request, at the first
\* free span of that chunk that could, and in a new chunk only if there was
\* no such chunk
PlacedFirstFit(types, req, r) ==
    LET fitting == FittingChunks(chunks, types, req)
    IN  IF fitting = {}
        THEN /\ r.chunk = Len(chunks) + 1
             /\ r.offset = 0
        ELSE /\ r.chunk = FirstChunk(fitting)
             /\ r.offset
                 = AlignUp(chunks[r.chunk].free[
                               FindFreeSpan(chunks[r.chunk].free, req.size,
                                            req.alignment)].offset,
                           req.alignment)

\* C24, as stated: Allocate places a request in the first chunk, in
\* chunk-creation order, that has a sufficient free span, whatever acceptable
\* memory type the chunk is of, and creates a new chunk only if no chunk has
\* one.
C24_FirstFitOfAllChunks ==
    [][(lastCall'.op = "Allocate" /\ lastCall'.err = NoError)
          => PlacedFirstFit(AcceptableTypes(lastCall'.desc.requirements.memoryTypeBits,
                                            lastCall'.desc.flags),
                            lastCall'.desc.requirements,
                            FirstAllocated(lastCall'.log))]_vars

\* C24, amended: Allocate places a request in the first chunk, in
\* chunk-creation order, of the memory type that serves the request that has
\* a sufficient free span, at the first such span of the chunk, and creates a
\* new chunk of that memory type only if no chunk of that type has one; a chunk
\* of another acceptable memory type with a sufficient free span is passed
\* over.  So after allocating A and B of equal size from an empty chunk and
\* releasing A, an allocation C of that size and memory type gets A's offset in
\* the same chunk.
C24_FirstFitOfMemoryType ==
    [][(lastCall'.op = "Allocate" /\ lastCall'.err = NoError)
          => /\ chunks'[FirstAllocated(lastCall'.log).chunk].memType
                 \in AcceptableTypes(lastCall'.desc.requirements.memoryTypeBits,
                                     lastCall'.desc.flags)
             /\ PlacedFirstFit({chunks'[FirstAllocated(lastCall'.log).chunk].memType},
                               lastCall'.desc.requirements,
                               FirstAllocated(lastCall'.log))]_vars

\* C24, the case: with a region B leased behind a free span of the size of B
\* at the start of the first chunk, and a second chunk of the same memory
\* type, a region of the size of B has been allocated at offset 0 of the
\* first chunk
C24_Witness ==
    /\ Ok("Allocate")
    /\ Len(chunks) = 2
    /\ chunks[1].memType = chunks[2].memType
    /\ Allocated.chunk = 1
    /\ Allocated.offset = 0
    /\ \E b \in lastCall.before :
        /\ b.chunk = 1
        /\ b.offset = Allocated.size
        /\ b.size = Allocated.size


\* the step is a Release of a region that is not leased (any more): the call
\* does nothing or fails with InvalidRegion, it releases nothing, and the
\* chunks, their free lists and the leased regions are as they were
StaleReleaseChangesNothing ==
    (/\ lastCall'.op = "Release"
     /\ lastCall'.desc.region \notin Leased(chunks))
        => /\ lastCall'.err \in {NoError, "InvalidRegion"}
           /\ Positions(lastCall'.log, "Release") = {}
           /\ chunks' = chunks
           /\ Leased(chunks') = Leased(chunks)

\* C25: a Release of a region that has already been released is a no-op or
\* fails with InvalidRegion; the free list of the chunk and every leased
\* region are unchanged, and the free and the leased bytes of every chunk
\* still add up to its size.
C25_DoubleRelease == [][StaleReleaseChangesNothing]_vars /\ [](C3_Conservation)

\* C25, the case: a region that lies in a free span next to a region still
\* leased has been released again
C25_Witness ==
    /\ lastCall.op = "Release"
    /\ lastCall.desc.region \notin lastCall.before
    /\ IsFree(chunks, lastCall.desc.region)
    /\ \E b \in lastCall.before :
        /\ b.chunk = lastCall.desc.region.chunk
        /\ b.offset = lastCall.desc.region.offset + lastCall.desc.region.size
    /\ Positions(lastCall.log, "InvalidRelease") # {}


\* the region of an Allocate lies in a chunk of a memory type acceptable for
\* the request
AllocatedFromAcceptableType ==
    Ok("Allocate") => chunks[Allocated.chunk].memType \in Acceptable

\* an Allocate fails with OutOfMemory or not at all, and with OutOfMemory only
\* when the device allocation has failed for every acceptable memory type; it
\* has then leased nothing
OutOfMemoryOnlyIfAllFailed ==
    lastCall.op = "Allocate"
        => /\ lastCall.err \in {NoError, "OutOfMemory"}
           /\ lastCall.err = "OutOfMemory"
                => /\ \A i \in 1..Cardinality(Acceptable) : ~lastCall.desc.devOk[i]
                   /\ Leased(chunks) = lastCall.before

\* a chunk keeps its memory type, and its place in the table
ChunkKeepsMemoryType ==
    \A c \in 1..Len(chunks) :
        /\ c <= Len(chunks')
        /\ chunks'[c].memType = chunks[c].memType

\* C27: the region returned by Allocate lies in a chunk whose memory type is
\* one of the acceptable types of the request, a chunk keeps its memory type
\* as long as it exists, so that it only ever holds regions of that type, and
\* Allocate fails with OutOfMemory only if the device allocation failed for
\* every acceptable memory type.
C27_MemoryTypeSelection ==
    /\ [](AllocatedFromAcceptableType /\ OutOfMemoryOnlyIfAllFailed)
    /\ [][ChunkKeepsMemoryType]_vars

\* C27, the case: a request with two acceptable memory types has been served
\* from the second one after the device allocation failed for the first
C27_Witness ==
    /\ Ok("Allocate")
    /\ Cardinality(Acceptable) = 2
    /\ lastCall.desc.devOk = <<FALSE, TRUE>>
    /\ chunks[Allocated.chunk].memType = 2
    /\ Allocated.chunk = Len(chunks)
    /\ \A c \in 1..Len(chunks) : chunks[c].memType = 2

\* C27, the other case: a request with two acceptable memory types has failed
\* with OutOfMemory
C27_WitnessOutOfMemory ==
    /\ lastCall.op = "Allocate"
    /\ lastCall.err = "OutOfMemory"
    /\ Cardinality(Acceptable) = 2


\* Host access to device memory, with the transfer calls (SpecMap)

\* the chunk of the region is of a host-visible memory type
HostVisibleRegion(r) == HostVisible \in MemoryPropertiesOf(r)

\* Map on a region whose chunk is not host-visible fails with InvalidAccess,
\* maps nothing and reads nothing; on a host-visible region it succeeds
MapChecksMemoryType ==
    lastCall.op = "HostRead"
        => IF HostVisibleRegion(lastCall.desc.region)
           THEN /\ lastCall.err = NoError
                /\ Cardinality(Positions(lastCall.log, "Map")) = 1
                /\ Len(lastCall.out) = lastCall.size
           ELSE /\ lastCall.err = "InvalidAccess"
                /\ Positions(lastCall.log, "Map") = {}
                /\ Positions(lastCall.log, "HostRead") = {}
                /\ lastCall.out = <<>>

\* every region mapped in the log is host-visible and was leased when mapped
MapsOnlyHostVisible(log) ==
    \A i \in Positions(log, "Map") :
        /\ HostVisibleRegion(log[i].region)
        /\ \A k \in Positions(log, "Release") :
               log[k].region = log[i].region => k > i

\* every Map in the log has its Unmap later in the log, and the region is
\* neither mapped again nor released in between
MapUnmapNest(log) ==
    \A i \in Positions(log, "Map") :
        \E j \in Positions(log, "Unmap") :
            /\ j > i
            /\ log[j].region = log[i].region
            /\ \A k \in (i + 1)..(j - 1) :
                   log[k].ev \in {"Map", "Unmap", "Release"}
                       => log[k].region # log[i].region

\* every Unmap in the log closes a Map of the same region
UnmapClosesMap(log) ==
    \A j \in Positions(log, "Unmap") :
        \E i \in Positions(log, "Map") : i < j /\ log[i].region = log[j].region

\* C26: Map on a region whose chunk is not of a host-visible memory type fails
\* with InvalidAccess and maps nothing; a region is mapped at most once at a
\* time, and every Map performed by the transfer paths is followed by its
\* Unmap before the region is released (and before the call returns).
C26_MapDiscipline ==
    /\ MapChecksMemoryType
    /\ MapsOnlyHostVisible(lastCall.log)
    /\ MapUnmapNest(lastCall.log)
    /\ UnmapClosesMap(lastCall.log)

\* C26, the case: Map on the primary region of a buffer, which lies in
\* device-local memory, has failed with InvalidAccess
C26_Witness ==
    /\ lastCall.op = "HostRead"
    /\ lastCall.err = "InvalidAccess"
    /\ DeviceLocal \in MemoryPropertiesOf(lastCall.desc.region)
    /\ lastCall.desc.region = buffers[lastCall.id].region

\* C26, the other case: a transfer call has mapped and unmapped its staging
\* region and released it afterwards
C26_WitnessTransfer ==
    /\ lastCall.op \in StagingCalls
    /\ lastCall.err = NoError
    /\ \E i \in Positions(lastCall.log, "Map") :
       \E k \in Positions(lastCall.log, "Release") :
           k > i /\ lastCall.log[k].region = lastCall.log[i].region


\* The construction of the render system (SpecConstruct)

\* C28: created without a Vulkan renderer configuration, the device memory
\* manager is constructed with a minimum allocation size of 1 MiB (1048576
\* bytes) and fragmentation reduction disabled; with a configuration, exactly
\* its two values are passed through.
C28_ManagerConfiguration ==
    lastCall.op = "VKRenderSystem"
        => /\ lastCall.err = NoError
           /\ IF lastCall.desc.rendererConfigVK = NullConfig
              THEN /\ lastCall.out.minAllocationSize = 1048576
                   /\ lastCall.out.reduceFragmentation = FALSE
              ELSE /\ lastCall.out.minAllocationSize
                        = lastCall.desc.rendererConfigVK.minDeviceMemoryAllocationSize
                   /\ lastCall.out.reduceFragmentation
                        = lastCall.desc.rendererConfigVK.reduceDeviceMemoryFragmentation

\* C28, the case: a configuration with values other than the defaults has
\* been passed through
C28_Witness ==
    /\ lastCall.op = "VKRenderSystem"
    /\ lastCall.desc.rendererConfigVK # NullConfig
    /\ lastCall.out = [minAllocationSize |-> 3, reduceFragmentation |-> TRUE]

\* C28, the other case: the render system was created without a configuration
C28_WitnessDefault ==
    /\ lastCall.op = "VKRenderSystem"
    /\ lastCall.desc.rendererConfigVK = NullConfig
    /\ lastCall.out = [minAllocationSize |-> 1048576, reduceFragmentation |-> FALSE]


\* The sample descriptors of Direct3D 11 (SpecSampleDesc)

\* the device renders the format with the sample count: every format with one
\* sample, and with more where the device reports quality levels
SupportsSampleCount(device, format, sampleCount) ==
    \/ sampleCount = 1
    \/ /\ sampleCount \in 2..MaxSampleCount
       /\ CheckMultisampleQualityLevels(device, format, sampleCount).hr = "S_OK"
       /\ CheckMultisampleQualityLevels(device, format, sampleCount).numQualityLevels > 0

\* the formats of the list other than DXGI_FORMAT_UNKNOWN
KnownFormats(formats) ==
    {formats[i] : i \in 1..Len(formats)} \ {DXGI_FORMAT_UNKNOWN}

\* C29: FindSuitableSampleDesc over a list of formats returns the least common
\* denominator for all formats: a sample count not above maxSampleCount that
\* every format of the list other than DXGI_FORMAT_UNKNOWN supports (or 1), for
\* every list of formats and every per-format set of supported counts.
C29_CommonSampleDesc ==
    lastCall.op = "FindSuitableSampleDesc"
        => /\ lastCall.out.Count <= lastCall.desc.maxSampleCount \/ lastCall.out.Count = 1
           /\ \A f \in KnownFormats(lastCall.desc.formats) :
                  SupportsSampleCount(lastCall.desc.device, f, lastCall.out.Count)

\* C29, what does hold: the count returned is not above maxSampleCount (or is
\* 1), and the last format of the list other than DXGI_FORMAT_UNKNOWN
\* supports it
C29_LastFormatSupports ==
    lastCall.op = "FindSuitableSampleDesc"
        => /\ lastCall.out.Count <= lastCall.desc.maxSampleCount \/ lastCall.out.Count = 1
           /\ \A i \in 1..Len(lastCall.desc.formats) :
                  (/\ lastCall.desc.formats[i] # DXGI_FORMAT_UNKNOWN
                   /\ \A j \in (i + 1)..Len(lastCall.desc.formats) :
                          lastCall.desc.formats[j] = DXGI_FORMAT_UNKNOWN)
                      => SupportsSampleCount(lastCall.desc.device,
                                             lastCall.desc.formats[i], lastCall.out.Count)

\* C29, the case: the first format supports 3 samples only, the second 2
\* samples only, and the count returned is 2
C29_Case ==
    /\ lastCall.op = "FindSuitableSampleDesc"
    /\ lastCall.desc.maxSampleCount = 3
    /\ lastCall.desc.formats = <<"R8G8B8A8_UNORM", "D24_UNORM_S8_UINT">>
    /\ SupportsSampleCount(lastCall.desc.device, "R8G8B8A8_UNORM", 3)
    /\ ~SupportsSampleCount(lastCall.desc.device, "R8G8B8A8_UNORM", 2)
    /\ ~SupportsSampleCount(lastCall.desc.device, "D24_UNORM_S8_UINT", 3)
    /\ SupportsSampleCount(lastCall.desc.device, "D24_UNORM_S8_UINT", 2)
    /\ lastCall.out.Count = 2


\* The wait at the flush (SpecBlocking, SpecBlockingFair)

\* a call waits only at a flush: the call in flight has flushed, once, and no
\* call has returned meanwhile
WaitsOnlyAtFlush ==
    inFlight # NoFlight
        => /\ inFlight.op \in StagingCalls
           /\ Flushes(inFlight.s.log) = 1
           /\ lastCall = NoCall

\* a call that does not flush returns in the step it is made in, and a call
\* that flushes does not: it returns in a step in which the device completes
\* its last command buffer
ReturnsOnlyOnCompletion ==
    (lastCall' # lastCall /\ lastCall' # NoCall)
        => /\ lastCall = NoCall
           /\ lastCall'.op \in StagingCalls
           /\ IF Flushes(lastCall'.log) = 0
              THEN inFlight = NoFlight /\ inFlight' = NoFlight
              ELSE /\ inFlight # NoFlight
                   /\ inFlight' = NoFlight
                   /\ lastCall'.op = inFlight.op
                   /\ lastCall'.log = inFlight.s.log
                   /\ lastCall'.err = inFlight.s.err

\* while a call waits, nothing happens but the completion of a command buffer:
\* no other call, no time-out, no cancellation, and no change of the resources
\* before the call returns
NothingButCompletion ==
    inFlight # NoFlight
        => /\ inFlight' = NoFlight
           /\ lastCall'.op = inFlight.op
           /\ lastCall'.id = inFlight.id

\* every call that waits at a flush returns
EveryCallReturns ==
    \A op \in StagingCalls :
        (inFlight # NoFlight /\ inFlight.op = op)
            ~> (inFlight = NoFlight /\ lastCall.op = op)

\* C30: the only point at which a transfer call can block is the flush; if
\* the device completes every submitted command buffer, every CreateBuffer,
\* WriteBuffer, ReadBuffer, CreateTexture, WriteTexture and ReadTexture call
\* returns; and a call that waits returns in no other way than by the device
\* completing its command buffer (there is no timeout or cancellation).
C30_Termination ==
    /\ [](WaitsOnlyAtFlush)
    /\ [][ReturnsOnlyOnCompletion /\ NothingButCompletion]_vars
    /\ EveryCallReturns

\* C30, the case: a WriteTexture call has returned after it waited at its flush
C30_Witness ==
    /\ lastCall.op = "WriteTexture"
    /\ lastCall.err = NoError
    /\ Flushes(lastCall.log) = 1
    /\ inFlight = NoFlight

\* C30, the cases: each of the six calls waits at a flush
C30_WitnessCreateBuffer == inFlight # NoFlight /\ inFlight.op = "CreateBuffer"
C30_WitnessWriteBuffer == inFlight # NoFlight /\ inFlight.op = "WriteBuffer"
C30_WitnessReadBuffer == inFlight # NoFlight /\ inFlight.op = "ReadBuffer"
C30_WitnessCreateTexture == inFlight # NoFlight /\ inFlight.op = "CreateTexture"
C30_WitnessWriteTexture == inFlight # NoFlight /\ inFlight.op = "WriteTexture"
C30_WitnessReadTexture == inFlight # NoFlight /\ inFlight.op = "ReadTexture"

\* C30, without the assumption: a call that waits need not return when the
\* device is not known to complete its command buffers (violated under
\* SpecBlocking, where the device may stay busy forever)
C30_ReturnsWithoutFairness == (inFlight # NoFlight) ~> (inFlight = NoFlight)


\* One format's sample descriptor (SpecSampleDescOfFormat)

\* the sample counts above 1 and up to maxSampleCount the format is rendered
\* with on the device
SupportedCounts(device, format, maxSampleCount) ==
    {c \in 2..maxSampleCount : SupportsSampleCount(device, format, c)}

\* C31: FindSuitableSampleDesc for one format returns the largest sample count
\* c with 1 < c <= maxSampleCount for which the device reports success with
\* more than zero quality levels, together with quality = levels - 1; it
\* returns {1, 0} when there is no such count, including when maxSampleCount is
\* 0 or 1; the loop ends after at most maxSampleCount - 1 questions to the
\* device, asked for strictly decreasing counts.
C31_SingleFormatSampleDesc ==
    lastCall.op = "FindSuitableSampleDescOfFormat"
        => LET device == lastCall.desc.device
               format == lastCall.desc.format
               maxSampleCount == lastCall.desc.maxSampleCount
               tried == lastCall.desc.tried
               S == SupportedCounts(device, format, maxSampleCount)
           IN  /\ lastCall.err = NoError
               /\ IF S = {}
                  THEN lastCall.out = [Count |-> 1, Quality |-> 0]
                  ELSE /\ lastCall.out.Count \in S
                       /\ \A c \in S : c <= lastCall.out.Count
                       /\ lastCall.out.Quality
                            = CheckMultisampleQualityLevels(device, format,
                                  lastCall.out.Count).numQualityLevels - 1
               /\ Len(tried) <= IF maxSampleCount > 1 THEN maxSampleCount - 1 ELSE 0
               /\ \A i \in 1..Len(tried) : tried[i] = maxSampleCount - i + 1
               /\ \A i \in 1..Len(tried) : tried[i] > 1

\* C31, the case: maxSampleCount itself is not supported, a smaller count is,
\* with two quality levels
C31_Witness ==
    /\ lastCall.op = "FindSuitableSampleDescOfFormat"
    /\ lastCall.desc.maxSampleCount = MaxSampleCount
    /\ ~SupportsSampleCount(lastCall.desc.device, lastCall.desc.format, MaxSampleCount)
    /\ lastCall.out = [Count |-> 2, Quality |-> 1]
    /\ Len(lastCall.desc.tried) = MaxSampleCount - 1

\* C31, the other case: with maxSampleCount 0 the device is not asked and
\* {1, 0} is returned although the device supports every count
C31_WitnessZero ==
    /\ lastCall.op = "FindSuitableSampleDescOfFormat"
    /\ lastCall.desc.maxSampleCount = 0
    /\ \A c \in 2..MaxSampleCount :
           SupportsSampleCount(lastCall.desc.device, lastCall.desc.format, c)
    /\ lastCall.desc.tried = <<>>
    /\ lastCall.out = [Count |-> 1, Quality |-> 0]


\* The frame of WriteBuffer (SpecTwoBuffers)

\* the bytes of the two memories are the same outside [offset, offset + n)
SameOutside(mem1, mem2, offset, n) ==
    /\ Len(mem1) = Len(mem2)
    /\ \A i \in 1..Len(mem1) :
           (i <= offset \/ i > offset + n) => mem1[i] = mem2[i]

\* the step is a WriteBuffer call: of the written buffer only the bytes in
\* [offset, offset + n) of the primary memory and of the retained staging
\* memory change, and no other buffer and no texture changes
WriteBufferFrame ==
    (lastCall = NoCall /\ lastCall'.op = "WriteBuffer")
        => /\ \A c \in (DOMAIN buffers) \ {lastCall'.id} : buffers'[c] = buffers[c]
           /\ textures' = textures
           /\ buffers'[lastCall'.id]
                = [buffers[lastCall'.id] EXCEPT !.mem = buffers'[lastCall'.id].mem,
                                                !.staging.mem = buffers'[lastCall'.id].staging.mem]
           /\ SameOutside(buffers'[lastCall'.id].mem, buffers[lastCall'.id].mem,
                          lastCall'.offset, lastCall'.size)
           /\ SameOutside(buffers'[lastCall'.id].staging.mem,
                          buffers[lastCall'.id].staging.mem,
                          lastCall'.offset, lastCall'.size)
           /\ lastCall'.err = NoError
                => Slice(buffers'[lastCall'.id].mem, lastCall'.offset, lastCall'.size)
                       = lastCall'.data.bytes

\* C32: WriteBuffer(buffer, offset, data, n) changes only bytes
\* [offset, offset + n) of the primary buffer; every byte of the primary buffer
\* outside that range, every other buffer, and (for a retained staging buffer)
\* the staging bytes outside [offset, offset + n) are unchanged, in both the
\* retained and the transient path.
C32_WriteBufferFrame == [][WriteBufferFrame]_vars

\* C32, the case: a byte was written into a buffer of two bytes with a retained
\* staging buffer; the other byte differs from it, in the primary and in the
\* staging memory, and the other buffer is live
C32_Witness ==
    /\ Ok("WriteBuffer")
    /\ lastCall.retained
    /\ lastCall.size = 1
    /\ buffers[lastCall.id].size = 2
    /\ \E i \in 1..2 :
           /\ i # lastCall.offset + 1
           /\ buffers[lastCall.id].mem[i] # lastCall.data.bytes[1]
           /\ buffers[lastCall.id].staging.mem[i] # lastCall.data.bytes[1]
    /\ \E c \in (DOMAIN buffers) \ {lastCall.id} : buffers[c].live

\* C32, the other case: the same through a transient staging buffer
C32_WitnessTransient ==
    /\ Ok("WriteBuffer")
    /\ ~lastCall.retained
    /\ lastCall.size = 1
    /\ lastCall.offset = 1
    /\ buffers[lastCall.id].mem[1] # lastCall.data.bytes[1]
    /\ \E c \in (DOMAIN buffers) \ {lastCall.id} :
           buffers[c].live /\ buffers[c].mem # buffers[lastCall.id].mem


\* The usage of retained staging buffers (SpecBuffers)

\* C33: whenever a retained staging buffer is the destination of a device copy
\* (ReadBuffer on a buffer with a retained staging buffer), that staging buffer
\* was created with transfer-destination usage: every staging buffer that
\* CreateBuffer retains has the transfer-destination bit in its usage.
C33_StagingUsageMatchesUse ==
    /\ \A b \in DOMAIN buffers :
           buffers[b].live /\ buffers[b].staging.valid
               => TransferDst \in buffers[b].staging.usage
    /\ (lastCall.op = "ReadBuffer" /\ lastCall.retained)
           => \A i \in Positions(lastCall.log, "CopyBuffer") :
                  lastCall.log[i].dst = buffers[lastCall.id].staging.region
                      => TransferDst \in buffers[lastCall.id].staging.usage

\* C33, what does hold: a retained staging buffer has transfer-source usage,
\* and transfer-destination usage exactly when the buffer was created with CPU
\* write access
C33_TransferDstOnlyWithCpuWrite ==
    lastCall.op = "CreateBuffer" /\ lastCall.err = NoError
        => /\ buffers[lastCall.id].staging.valid <=> RetainsStaging(lastCall.desc)
           /\ buffers[lastCall.id].staging.valid
                => /\ TransferSrc \in buffers[lastCall.id].staging.usage
                   /\ TransferDst \in buffers[lastCall.id].staging.usage
                          <=> CPUWrite \in lastCall.desc.cpuAccessFlags

\* C33, the case: ReadBuffer has copied into the retained staging buffer of a
\* buffer created with CPU read access only, which lacks the
\* transfer-destination usage
C33_Case ==
    /\ lastCall.op = "ReadBuffer"
    /\ lastCall.retained
    /\ TransferDst \notin buffers[lastCall.id].staging.usage
    /\ \E i \in Positions(lastCall.log, "CopyBuffer") :
           lastCall.log[i].dst = buffers[lastCall.id].staging.region


\* CreateBuffer when the allocation for the primary buffer fails (SpecBuffers)

\* the call is a CreateBuffer that allocated its staging region and then failed
\* for lack of device memory for the primary buffer
PrimaryAllocationFailed ==
    /\ lastCall.op = "CreateBuffer"
    /\ lastCall.err = "OutOfMemory"
    /\ Positions(lastCall.log, "Allocate") # {}

\* C34: if the device-memory allocation for the primary buffer fails
\* (OutOfMemory) inside CreateBuffer, then after the failed call the buffer
\* registry contains no new buffer and the staging region allocated earlier in
\* the same call is no longer leased: the leased regions are those before the
\* call.
C34_CreateBufferFailureAtomic ==
    PrimaryAllocationFailed
        => /\ buffers[lastCall.id] = NoBuffer
           /\ Leased(chunks) = lastCall.before

\* C34, what does hold: a CreateBuffer that fails already at the allocation of
\* its staging region leaves no buffer and no lease behind
C34_StagingAllocationFailureAtomic ==
    (/\ lastCall.op = "CreateBuffer"
     /\ lastCall.err = "OutOfMemory"
     /\ Positions(lastCall.log, "Allocate") = {})
        => /\ buffers[lastCall.id] = NoBuffer
           /\ Leased(chunks) = lastCall.before

\* C34, the case: after the failed call the buffer is in the registry without
\* memory, and its staging region is still leased
C34_Case ==
    /\ PrimaryAllocationFailed
    /\ buffers[lastCall.id].live
    /\ buffers[lastCall.id].region = NoRegion
    /\ Leased(chunks) = lastCall.before \union {FirstAllocated(lastCall.log)}
    /\ FirstAllocated(lastCall.log) \notin lastCall.before


\* Texture contents across layout transitions (SpecTextures)

\* the step is a ReadTexture call that returns normally: the texels of the
\* texture are as before and the texels of the region as stored before the call
\* are returned
ReadTexturePreserves ==
    (lastCall = NoCall /\ lastCall'.op = "ReadTexture" /\ lastCall'.err = NoError)
        => /\ textures'[lastCall'.id].mem = textures[lastCall'.id].mem
           /\ lastCall'.out = Slice(textures[lastCall'.id].mem[lastCall'.mip + 1],
                                    lastCall'.offset, lastCall'.size)

\* the step is a WriteTexture call that returns normally: the texels of the
\* MIP level outside the region, and the other MIP levels, are as before
WriteTexturePreserves ==
    (lastCall = NoCall /\ lastCall'.op = "WriteTexture" /\ lastCall'.err = NoError)
        => \A m \in 1..textures[lastCall'.id].mips :
               IF m = lastCall'.mip + 1
               THEN SameOutside(textures'[lastCall'.id].mem[m],
                                textures[lastCall'.id].mem[m],
                                lastCall'.offset, lastCall'.size)
               ELSE textures'[lastCall'.id].mem[m] = textures[lastCall'.id].mem[m]

\* no transition of a ReadTexture or WriteTexture call declares the undefined
\* layout as the old layout
NoTransitionFromUndefined ==
    lastCall.op \in {"ReadTexture", "WriteTexture"}
        => \A i \in Positions(lastCall.log, "Transition") :
               lastCall.log[i].old # Undefined

\* C35: given that a layout transition whose declared old layout is Undefined
\* may discard the contents of the sub-resource, ReadTexture leaves all texels
\* of the texture unchanged and returns the texels stored before the call, and
\* WriteTexture of a sub-region leaves the texels of the sub-resource outside
\* that region unchanged; neither declares Undefined as the old layout of a
\* sub-resource that already holds data.
C35_ContentPreserved ==
    /\ [][ReadTexturePreserves /\ WriteTexturePreserves]_vars
    /\ [](NoTransitionFromUndefined)

\* C35, the case: a ReadTexture whose first transition declares the undefined
\* layout has returned other bytes than the ones the WriteTexture before it
\* wrote into the region
C35_Case ==
    /\ ReadBackOfWrittenRegion
    /\ lastCall.out # lastWrite.data
    /\ \E i \in Positions(lastCall.log, "Transition") : lastCall.log[i].old = Undefined


\* Uploads from the staging buffer at creation (Spec)

\* the staging-to-resource copies in the log of a call
UploadPositions(log) ==
    Positions(log, "CopyBuffer") \union Positions(log, "CopyBufferToImage")

\* every staging-to-resource copy in the log comes after a host write into
\* staging memory
UploadsOnlyFilledStaging(log) ==
    \A i \in UploadPositions(log) :
        \E j \in Positions(log, "HostWrite") : j < i

\* the call created a resource without host data: a buffer with a null
\* initial-data pointer, or a texture without an image descriptor and with the
\* NoInitialData flag
CreatedWithoutData ==
    \/ lastCall.op = "CreateBuffer" /\ lastCall.data.null
    \/ /\ lastCall.op = "CreateTexture"
       /\ ~lastCall.desc.image.present
       /\ lastCall.desc.texture.noInitialData

\* C36: a staging-to-resource copy is recorded only when the staging buffer has
\* been filled with host data; CreateBuffer with a null initial-data pointer,
\* and CreateTexture with no image descriptor and the NoInitialData flag set,
\* transfer no staging contents into the new resource.
C36_NoUploadWithoutData ==
    /\ lastCall.op \in {"CreateBuffer", "CreateTexture"}
           => UploadsOnlyFilledStaging(lastCall.log)
    /\ CreatedWithoutData => UploadPositions(lastCall.log) = {}

\* C36, what does hold: without data the staging buffer is not written by the
\* host, and the copy is recorded all the same
C36_UploadWithoutHostWrite ==
    (CreatedWithoutData /\ lastCall.err = NoError)
        => /\ Positions(lastCall.log, "HostWrite") = {}
           /\ Cardinality(UploadPositions(lastCall.log)) = 1

\* C36, the cases: a buffer and a texture created without data, with a copy
\* from the staging buffer that the host never wrote
C36_CaseBuffer ==
    /\ Ok("CreateBuffer")
    /\ lastCall.data.null
    /\ Positions(lastCall.log, "HostWrite") = {}
    /\ Positions(lastCall.log, "CopyBuffer") # {}

C36_CaseTexture ==
    /\ Ok("CreateTexture")
    /\ ~lastCall.desc.image.present
    /\ lastCall.desc.texture.noInitialData
    /\ Positions(lastCall.log, "HostWrite") = {}
    /\ Positions(lastCall.log, "CopyBufferToImage") # {}

---------------------------------------------------------------------------
(* Slices of the initial data of an array texture *)

\* the call that has returned is a D3D11 CreateTexture with initial data that
\* passed the divisibility check
DivisibleInitialData(call) ==
    /\ call.op = "D3D11CreateTexture"
    /\ call.desc.image.present
    /\ call.desc.image.dataSize % call.desc.texture.arrayLayers = 0

\* the slice of the caller's data handed to the sub-resource update at position
\* p of the log lies within the data, [0, dataSize)
SliceInside(call, p) ==
    call.log[p].src + call.log[p].srcSize <= call.desc.image.dataSize

\* the size in bytes of one layer in the format of the source image
BytesPerLayer(call) == call.desc.texture.texels * call.desc.image.texelSize

\* C37: for every layer of a CreateTexture whose initial data passes the
\* divisibility check, the slice handed to the sub-resource update, starting
\* at layer * bytesPerLayer with size dataSize / arrayLayers, lies within the
\* caller's data.
C37_SlicesInsideInput ==
    DivisibleInitialData(lastCall)
        => /\ lastCall.err = NoError
           /\ Cardinality(Positions(lastCall.log, "UpdateSubresource"))
                  = lastCall.desc.texture.arrayLayers
           /\ \A p \in Positions(lastCall.log, "UpdateSubresource") :
                  /\ lastCall.log[p].src = lastCall.log[p].layer * BytesPerLayer(lastCall)
                  /\ lastCall.log[p].srcSize
                         = lastCall.desc.image.dataSize
                               \div lastCall.desc.texture.arrayLayers
                  /\ SliceInside(lastCall, p)

\* what holds of such a call: every layer is updated once, from the slice that
\* starts at layer * bytesPerLayer with size dataSize / arrayLayers; the slice
\* of the first layer lies within the data, and so does every slice when the
\* data holds at least bytesPerLayer bytes for each layer
C37_SlicesInsideLargeEnoughInput ==
    DivisibleInitialData(lastCall)
        => /\ lastCall.err = NoError
           /\ Cardinality(Positions(lastCall.log, "UpdateSubresource"))
                  = lastCall.desc.texture.arrayLayers
           /\ \A p \in Positions(lastCall.log, "UpdateSubresource") :
                  /\ lastCall.log[p].src = lastCall.log[p].layer * BytesPerLayer(lastCall)
                  /\ lastCall.log[p].srcSize
                         = lastCall.desc.image.dataSize
                               \div lastCall.desc.texture.arrayLayers
                  /\ (\/ lastCall.log[p].layer = 0
                      \/ lastCall.desc.image.dataSize
                             >= lastCall.desc.texture.arrayLayers * BytesPerLayer(lastCall))
                         => SliceInside(lastCall, p)

\* an array texture of two layers has been created from data that passes the
\* divisibility check, and the slice of its second layer ends behind the data
C37_Case ==
    /\ DivisibleInitialData(lastCall)
    /\ lastCall.desc.texture.arrayLayers = 2
    /\ \E p \in Positions(lastCall.log, "UpdateSubresource") :
           /\ lastCall.log[p].layer = 1
           /\ ~SliceInside(lastCall, p)

\* such a texture has been created from data of the full size, and every slice
\* lies within the data
C37_CaseFullSize ==
    /\ DivisibleInitialData(lastCall)
    /\ lastCall.desc.texture.arrayLayers = 2
    /\ lastCall.desc.image.dataSize = 2 * BytesPerLayer(lastCall)
    /\ \A p \in Positions(lastCall.log, "UpdateSubresource") : SliceInside(lastCall, p)

---------------------------------------------------------------------------
(* Creation of the D3D11 device *)

\* the attempts to create a device with the given flags, in the order of the log
AttemptsWith(log, flags) ==
    SelectSeq(log, LAMBDA e : e.ev = "D3D11CreateDevice" /\ e.flags = flags)

\* the attempts to create a device, in the order of the log
Attempts(log) == SelectSeq(log, LAMBDA e : e.ev = "D3D11CreateDevice")

AllFailed(a) == \A i \in 1..Len(a) : FAILED(a[i].hr)

\* a is one run of the loop of CreateDeviceWithFlags: hardware, WARP, software in
\* this order, every attempt before the last has failed, and the run is shorter
\* than three attempts only when its last attempt succeeded
RunOfDriverTypes(a) ==
    /\ Len(a) \in 1..Len(DriverTypes)
    /\ \A i \in 1..Len(a) : a[i].driver = DriverTypes[i]
    /\ \A i \in 1..(Len(a) - 1) : FAILED(a[i].hr)
    /\ Len(a) < Len(DriverTypes) => SUCCEEDED(a[Len(a)].hr)

\* a CreateDeviceWithFlags has returned: its attempts are one run of the loop
\* with the flags passed, it returned true exactly when the last attempt
\* succeeded, and false only after three failures, with the code of the last
FallbackOfDriverTypes(call) ==
    call.op = "CreateDeviceWithFlags"
        => /\ call.log = AttemptsWith(call.log, call.desc.flags)
           /\ RunOfDriverTypes(call.log)
           /\ \A i \in 1..Len(call.log) :
                  call.log[i].hr = call.desc.answers[call.desc.flags][call.log[i].driver]
           /\ call.out.ok <=> SUCCEEDED(call.log[Len(call.log)].hr)
           /\ call.out.hr = call.log[Len(call.log)].hr
           /\ ~call.out.ok
                  => /\ Len(call.log) = Len(DriverTypes)
                     /\ AllFailed(call.log)
                     /\ call.out.hr = call.desc.answers[call.desc.flags][DriverTypes[3]]
           /\ call.out.ok
                  => call.out.device = [driver |-> call.log[Len(call.log)].driver,
                                        flags |-> call.desc.flags]

\* a CreateDevice has returned: in a debug build the attempts with the debug
\* flag come first and those without it follow only after three failures; in
\* a release build there are only attempts without the flag; the call fails
\* exactly when every attempt failed, and otherwise holds the device of the
\* attempt that succeeded
FallbackOfDebugLayer(call) ==
    call.op = "CreateDevice"
        => /\ SubSeq(call.log, 1, Len(Attempts(call.log)))
                  = AttemptsWith(call.log, {D3D11_CREATE_DEVICE_DEBUG})
                        \o AttemptsWith(call.log, {})
           /\ IF call.desc.debug
              THEN /\ RunOfDriverTypes(AttemptsWith(call.log, {D3D11_CREATE_DEVICE_DEBUG}))
                   /\ AttemptsWith(call.log, {}) # <<>>
                          <=> /\ Len(AttemptsWith(call.log, {D3D11_CREATE_DEVICE_DEBUG}))
                                     = Len(DriverTypes)
                              /\ AllFailed(AttemptsWith(call.log,
                                                        {D3D11_CREATE_DEVICE_DEBUG}))
                   /\ AttemptsWith(call.log, {}) # <<>>
                          => RunOfDriverTypes(AttemptsWith(call.log, {}))
              ELSE /\ AttemptsWith(call.log, {D3D11_CREATE_DEVICE_DEBUG}) = <<>>
                   /\ RunOfDriverTypes(AttemptsWith(call.log, {}))
           /\ \A i \in 1..Len(Attempts(call.log)) :
                  call.log[i].hr = call.desc.answers[call.log[i].flags][call.log[i].driver]
           /\ call.err # NoError <=> AllFailed(Attempts(call.log))
           /\ call.err # NoError
                  => /\ Len(Attempts(call.log))
                            = IF call.desc.debug THEN 2 * Len(DriverTypes)
                              ELSE Len(DriverTypes)
                     /\ call.out.hr = call.desc.answers[{}][DriverTypes[3]]
                     /\ call.out.device = NoDevice
           /\ call.err = NoError
                  => call.out.device
                         = [driver |-> Attempts(call.log)[Len(Attempts(call.log))].driver,
                            flags |-> Attempts(call.log)[Len(Attempts(call.log))].flags]

\* C38: CreateDeviceWithFlags tries hardware, WARP, software in this order,
\* stops at the first success and returns true, and returns false with the last
\* failure code only if all three fail; in a debug build CreateDevice retries
\* without the debug flag only after all three attempts with it failed, and
\* device creation fails only if every attempt failed.
C38_DeviceCreationFallback ==
    /\ FallbackOfDriverTypes(lastCall)
    /\ FallbackOfDebugLayer(lastCall)

\* a debug build has created its device on the fifth attempt: all three driver
\* types failed with the debug flag, the hardware driver failed without it and
\* WARP succeeded
C38_Witness ==
    /\ lastCall.op = "CreateDevice"
    /\ lastCall.desc.debug
    /\ lastCall.err = NoError
    /\ Len(Attempts(lastCall.log)) = 5
    /\ lastCall.out.device = [driver |-> "D3D_DRIVER_TYPE_WARP", flags |-> {}]

\* a CreateDeviceWithFlags has returned true after its second attempt
C38_WitnessStopsAtSuccess ==
    /\ lastCall.op = "CreateDeviceWithFlags"
    /\ lastCall.out.ok
    /\ Len(lastCall.log) = 2
    /\ SUCCEEDED(lastCall.desc.answers[lastCall.desc.flags]["D3D_DRIVER_TYPE_SOFTWARE"])

\* a CreateDeviceWithFlags has returned false with the code of the software
\* driver, which differs from the codes of the two attempts before
C38_WitnessAllFail ==
    /\ lastCall.op = "CreateDeviceWithFlags"
    /\ ~lastCall.out.ok
    /\ lastCall.log[1].hr # lastCall.out.hr
    /\ lastCall.log[2].hr # lastCall.out.hr

\* a debug build has created its device with the debug flag and made no attempt
\* without it
C38_WitnessDebugLayer ==
    /\ lastCall.op = "CreateDevice"
    /\ lastCall.desc.debug
    /\ lastCall.err = NoError
    /\ AttemptsWith(lastCall.log, {}) = <<>>
    /\ lastCall.out.device.flags = {D3D11_CREATE_DEVICE_DEBUG}

\* a debug build has failed to create a device after six attempts
C38_WitnessEveryAttemptFailed ==
    /\ lastCall.op = "CreateDevice"
    /\ lastCall.desc.debug
    /\ lastCall.err = "CreateFailed"
    /\ Len(lastCall.log) = 6

=============================================================================
